---- MODULE Spec2Model ----
(***************************************************************************)
(* Model of the resume-agent CLI (src/src/main.ts, src/src/googleDrive.ts, *)
(* src/src/groqClient.ts): the local version log, the remote document and  *)
(* its revision sequence, and the update / revert / tag / export / list /  *)
(* search handlers.                                                        *)
(*                                                                         *)
(* Strings are sequences of one-character strings, so that parseInt,       *)
(* startsWith, includes and template literals are computed as the code     *)
(* computes them.  One CLI process runs at a time; each await of a handler *)
(* is one step of the model.                                               *)
(***************************************************************************)
EXTENDS Integers, Sequences, FiniteSets, TLC

(***************************************************************************)
(* Bounds of the model.                                                    *)
(***************************************************************************)
\* Mutating commands start only while the remote document has fewer revisions.
MaxRevs == 3
\* Appending commands start only while the stored log has fewer entries.
MaxLog == 4

(***************************************************************************)
(* String literals of the program.                                         *)
(***************************************************************************)
W_update == <<"u", "p", "d", "a", "t", "e">>
W_revert == <<"r", "e", "v", "e", "r", "t">>
W_tag == <<"t", "a", "g">>
W_export == <<"e", "x", "p", "o", "r", "t">>
W_list == <<"l", "i", "s", "t">>
W_batch == <<"b", "a", "t", "c", "h">>
W_monitor == <<"m", "o", "n", "i", "t", "o", "r">>
W_search == <<"s", "e", "a", "r", "c", "h">>
F_dryRun == <<"-", "-", "d", "r", "y", "-", "r", "u", "n">>
F_company == <<"-", "-", "c", "o", "m", "p", "a", "n", "y">>
F_jobTitle == <<"-", "-", "j", "o", "b", "-", "t", "i", "t", "l", "e">>
F_url == <<"-", "-", "u", "r", "l">>
F_job == <<"-", "-", "j", "o", "b">>
F_c == <<"-", "c">>
F_j == <<"-", "j">>
F_urls == <<"-", "-", "u", "r", "l", "s">>
F_file == <<"-", "-", "f", "i", "l", "e">>
F_process == <<"-", "-", "p", "r", "o", "c", "e", "s", "s">>
F_jd == <<"-", "-", "j", "d">>
S_revertedTo == <<"R", "e", "v", "e", "r", "t", "e", "d", " ", "t", "o", " ", "r", "e", "v", "i", "s", "i", "o", "n", " ">>
S_ellipsis == <<".", ".", ".">>
S_notFound ==
    <<"n", "o", "t", " ", "f", "o", "u", "n", "d", " ", "i", "n", " ", "r",
      "e", "s", "u", "m", "e">>
S_tooLarge ==
    <<"W", "o", "r", "d", " ", "c", "o", "u", "n", "t", " ", "d", "i", "f",
      "f", "e", "r", "e", "n", "c", "e", " ", "t", "o", "o", " ", "l", "a",
      "r", "g", "e">>
S_acme == <<"A", "c", "m", "e">>

\* undefined (and the empty string, which the code treats alike: both falsy)
Undefined == <<>>

(***************************************************************************)
(* String functions of the JavaScript runtime, as the code uses them.      *)
(***************************************************************************)
startsWith(s, p) ==
    /\ Len(s) >= Len(p)
    /\ SubSeq(s, 1, Len(p)) = p

\* s.toLowerCase()
UpperCase == <<"A", "B", "C", "D", "E", "F", "G", "H", "I", "J", "K", "L", "M", "N", "O", "P", "Q", "R", "S", "T", "U", "V", "W", "X", "Y", "Z">>
LowerCase == <<"a", "b", "c", "d", "e", "f", "g", "h", "i", "j", "k", "l", "m", "n", "o", "p", "q", "r", "s", "t", "u", "v", "w", "x", "y", "z">>
toLowerCase(s) ==
    [i \in 1..Len(s) |->
        IF \E u \in 1..Len(UpperCase) : UpperCase[u] = s[i]
        THEN LowerCase[CHOOSE u \in 1..Len(UpperCase) : UpperCase[u] = s[i]]
        ELSE s[i]]

\* s.includes(sub): sub is a contiguous, case-sensitive substring of s
includes(s, sub) ==
    \E i \in 0..(Len(s) - Len(sub)) : SubSeq(s, i + 1, i + Len(sub)) = sub

\* args.indexOf(x), 0-based, -1 when absent
indexOf(args, x) ==
    IF \E i \in 1..Len(args) : args[i] = x
    THEN (CHOOSE i \in 1..Len(args) : args[i] = x /\ \A j \in 1..(i - 1) : args[j] # x) - 1
    ELSE -1

\* args[i] for a 0-based i; undefined out of range
argAt(args, i) == IF i >= 0 /\ i < Len(args) THEN args[i + 1] ELSE Undefined

Digits == <<"0", "1", "2", "3", "4", "5", "6", "7", "8", "9">>
isDigit(c) == \E d \in 1..Len(Digits) : Digits[d] = c
digitVal(c) == (CHOOSE d \in 1..Len(Digits) : Digits[d] = c) - 1
isSpace(c) == c = " "

NaN == [nan |-> TRUE, val |-> 0]
Num(n) == [nan |-> FALSE, val |-> n]
isNaN(x) == x.nan

RECURSIVE skipSpace(_)
skipSpace(s) == IF s # <<>> /\ isSpace(Head(s)) THEN skipSpace(Tail(s)) ELSE s

\* the value of the longest prefix of digits of s, read after acc
RECURSIVE digitsValue(_, _)
digitsValue(s, acc) ==
    IF s # <<>> /\ isDigit(Head(s))
    THEN digitsValue(Tail(s), acc * 10 + digitVal(Head(s)))
    ELSE acc

\* parseInt(s, 10): leading white space, an optional sign, then the longest
\* prefix of digits; NaN when there is no digit there
parseInt(s) ==
    LET t == skipSpace(s)
        neg == t # <<>> /\ Head(t) = "-"
        u == IF t # <<>> /\ Head(t) \in {"-", "+"} THEN Tail(t) ELSE t
    IN  IF u = <<>> \/ ~isDigit(Head(u))
        THEN NaN
        ELSE Num(IF neg THEN 0 - digitsValue(u, 0) ELSE digitsValue(u, 0))

\* args.find((arg) => !arg.startsWith('--')): the first element of args that
\* does not start with two dashes; undefined when there is none
RECURSIVE firstNonFlag(_)
firstNonFlag(args) ==
    IF args = <<>> THEN Undefined
    ELSE IF ~startsWith(Head(args), <<"-", "-">>) THEN Head(args)
    ELSE firstNonFlag(Tail(args))

\* text.replaceAll as the document service's replaceAllText does it:
\* every occurrence, left to right, case-sensitive
RECURSIVE replaceAllText(_, _, _)
replaceAllText(text, original, replacement) ==
    IF original = <<>> \/ Len(text) < Len(original) THEN text
    ELSE IF SubSeq(text, 1, Len(original)) = original
         THEN replacement \o replaceAllText(SubSeq(text, Len(original) + 1, Len(text)), original, replacement)
         ELSE <<Head(text)>> \o replaceAllText(Tail(text), original, replacement)

(***************************************************************************)
(* ReplacementValidator: the filter of getResumeReplacements.              *)
(***************************************************************************)
RECURSIVE trimStart(_)
trimStart(s) == IF s # <<>> /\ isSpace(Head(s)) THEN trimStart(Tail(s)) ELSE s

RECURSIVE trimEnd(_)
trimEnd(s) ==
    IF s # <<>> /\ isSpace(s[Len(s)]) THEN trimEnd(SubSeq(s, 1, Len(s) - 1)) ELSE s

trim(s) == trimEnd(trimStart(s))

\* s.split(/\s+/).length: one more than the number of maximal runs of white space
RECURSIVE spaceRuns(_, _)
spaceRuns(s, inRun) ==
    IF s = <<>> THEN 0
    ELSE IF isSpace(Head(s))
         THEN (IF inRun THEN 0 ELSE 1) + spaceRuns(Tail(s), TRUE)
         ELSE spaceRuns(Tail(s), FALSE)

wordCount(s) == spaceRuns(s, FALSE) + 1

abs(n) == IF n < 0 THEN 0 - n ELSE n

\* the word-count bound of the filter
MaxWordDelta == 5

\* the filter callback: does candidate r pass against resumeText
isValidReplacement(resumeText, r) ==
    /\ includes(resumeText, r.original)
    /\ trim(r.original) # trim(r.replacement)
    /\ ~(abs(wordCount(r.original) - wordCount(r.replacement)) > MaxWordDelta)

\* what the filter callback prints for candidate r: a line for a candidate
\* not found and for one whose word counts are too far apart, nothing for a
\* candidate that changes nothing and nothing for one it keeps
skipLine(resumeText, r) ==
    IF ~includes(resumeText, r.original)
    THEN << [line |-> S_notFound,
             original |-> SubSeq(r.original, 1, IF Len(r.original) < 40 THEN Len(r.original) ELSE 40)] >>
    ELSE IF trim(r.original) = trim(r.replacement)
    THEN <<>>
    ELSE IF abs(wordCount(r.original) - wordCount(r.replacement)) > MaxWordDelta
    THEN << [line |-> S_tooLarge,
             origWords |-> wordCount(r.original),
             replWords |-> wordCount(r.replacement)] >>
    ELSE <<>>

\* the lines the filter prints over the whole candidate list, in order
RECURSIVE skipLines(_, _)
skipLines(resumeText, cands) ==
    IF cands = <<>> THEN <<>>
    ELSE skipLine(resumeText, Head(cands)) \o skipLines(resumeText, Tail(cands))

\* (mutant) a candidate whose original was already kept is dropped
RECURSIVE validReplacements_dedupe(_, _)
validReplacements_dedupe(resumeText, cands) ==
    IF cands = <<>> THEN <<>>
    ELSE LET front == SubSeq(cands, 1, Len(cands) - 1)
             last == cands[Len(cands)]
             kept == validReplacements_dedupe(resumeText, front)
         IN  IF isValidReplacement(resumeText, last)
                /\ ~\E i \in 1..Len(kept) : kept[i].original = last.original
             THEN Append(kept, last)
             ELSE kept

\* (mutant) the first candidate is dropped unseen
validReplacements_skipFirst(resumeText, cands) ==
    IF cands = <<>> THEN <<>>
    ELSE SelectSeq(Tail(cands), LAMBDA r : isValidReplacement(resumeText, r))

\* Array.prototype.filter: the passing candidates, in input order
RECURSIVE validReplacements(_, _)
validReplacements(resumeText, cands) ==
    IF cands = <<>> THEN <<>>
    ELSE (IF isValidReplacement(resumeText, Head(cands)) THEN <<Head(cands)>> ELSE <<>>)
         \o validReplacements(resumeText, Tail(cands))

\* (mutant) the originals of the rejected candidates are added to the changes
getResumeReplacements_logRejected(resumeText, suggestions) ==
    [replacements |-> validReplacements(resumeText, suggestions.replacements),
     changes |-> suggestions.summary
                    \o [i \in 1..Len(SelectSeq(suggestions.replacements,
                                                LAMBDA r : ~isValidReplacement(resumeText, r))) |->
                           SelectSeq(suggestions.replacements,
                                     LAMBDA r : ~isValidReplacement(resumeText, r))[i].original]]

\* what getResumeReplacements returns for the suggestions the model returned
getResumeReplacements(resumeText, suggestions) ==
    [replacements |-> validReplacements(resumeText, suggestions.replacements),
     changes |-> suggestions.summary]

(***************************************************************************)
(* getAlignmentSuggestions: the request to the generation service and its  *)
(* retry loop (sourceWithGroqWebSearch of jobSource.ts has the same loop). *)
(***************************************************************************)
maxRetries == 3

S_JSON == <<"J", "S", "O", "N">>
S_parse == <<"p", "a", "r", "s", "e">>

\* the messages of the errors one attempt can end with
M_status ==
    <<"R", "e", "q", "u", "e", "s", "t", " ", "f", "a", "i", "l", "e", "d",
      " ", "w", "i", "t", "h", " ", "s", "t", "a", "t", "u", "s", " ", "c",
      "o", "d", "e", " ", "4", "2", "9">>
M_network ==
    <<"N", "e", "t", "w", "o", "r", "k", " ", "E", "r", "r", "o", "r">>
M_invalid ==
    <<"I", "n", "v", "a", "l", "i", "d", " ", "r", "e", "s", "p", "o", "n",
      "s", "e", " ", "f", "o", "r", "m", "a", "t", " ", "f", "r", "o", "m",
      " ", "G", "r", "o", "q", " ", "A", "P", "I">>
M_syntax ==
    <<"U", "n", "e", "x", "p", "e", "c", "t", "e", "d", " ", "e", "n", "d",
      " ", "o", "f", " ", "J", "S", "O", "N", " ", "i", "n", "p", "u", "t">>
M_schema ==
    <<"A", "r", "r", "a", "y", " ", "m", "u", "s", "t", " ", "c", "o", "n",
      "t", "a", "i", "n", " ", "a", "t", " ", "l", "e", "a", "s", "t", " ",
      "1", " ", "e", "l", "e", "m", "e", "n", "t", "(", "s", ")">>

\* what the catch block of one attempt can catch: the service answers with an
\* error status; the request gets no answer; the answer has no text content;
\* JSON.parse of the content throws; AlignmentSchema.parse of the value throws
PostErrors ==
    { [name |-> "AxiosError", isAxiosError |-> TRUE, response |-> TRUE, message |-> M_status],
      [name |-> "AxiosError", isAxiosError |-> TRUE, response |-> FALSE, message |-> M_network],
      [name |-> "Error", isAxiosError |-> FALSE, response |-> FALSE, message |-> M_invalid],
      [name |-> "SyntaxError", isAxiosError |-> FALSE, response |-> FALSE, message |-> M_syntax],
      [name |-> "ZodError", isAxiosError |-> FALSE, response |-> FALSE, message |-> M_schema] }

\* (mutant) the message of the error is not looked at
isRetryable_anyMessage(attempt, message) == attempt < maxRetries

\* isRetryable
isRetryable(attempt, message) ==
    attempt < maxRetries /\ (includes(message, S_JSON) \/ includes(message, S_parse))

(***************************************************************************)
(* The version log file.                                                   *)
(***************************************************************************)
\* the properties of a VersionLogEntry, and those that may be undefined
EntryKeys == {"revisionId", "timestamp", "company", "jobTitle", "jobUrl", "changes", "isRevert"}
OptionalKeys == {"company", "jobTitle", "jobUrl"}

\* JSON.stringify of one entry: a property whose value is undefined is left out
stringifyEntry(e) ==
    [k \in {key \in DOMAIN e : ~(key \in OptionalKeys /\ e[key] = Undefined)} |-> e[k]]

\* an object JSON.parse returns, read as a VersionLogEntry: a property that is
\* not there reads as undefined
parseEntry(o) ==
    [k \in EntryKeys |-> IF k \in DOMAIN o THEN o[k] ELSE Undefined]

\* JSON.stringify(entries, null, 2) and JSON.parse(content) of the whole array
JSONstringify(es) == [i \in 1..Len(es) |-> stringifyEntry(es[i])]
JSONparse(content) == [i \in 1..Len(content) |-> parseEntry(content[i])]

\* The stored file: exists, and when it does either holds the whole JSON text
\* of an array of entries (whole) or only the text of a proper prefix of a
\* write (the entries fully written so far, the closing bracket missing).
NoFile == [exists |-> FALSE, whole |-> FALSE, content |-> <<>>]
WholeFile(es) == [exists |-> TRUE, whole |-> TRUE, content |-> JSONstringify(es)]
PartialFile(es) == [exists |-> TRUE, whole |-> FALSE, content |-> JSONstringify(es)]

\* readVersionLog: [] when the file is absent or JSON.parse throws
readVersionLog(f) ==
    IF ~f.exists THEN <<>>
    ELSE IF f.whole THEN JSONparse(f.content)
    ELSE <<>>

\* (mutant) the entries are not read back before the write
appendVersionLog_noRead(f, entry) == <<entry>>

\* (mutant) unshift in place of push
appendVersionLog_unshift(f, entry) == <<entry>> \o readVersionLog(f)

\* (mutant) the entry takes the place of the last entry read
appendVersionLog_overLast(f, entry) ==
    IF readVersionLog(f) = <<>> THEN <<entry>>
    ELSE [readVersionLog(f) EXCEPT ![Len(readVersionLog(f))] = entry]

\* what appendVersionLog hands to writeVersionLog
appendVersionLog(f, entry) == Append(readVersionLog(f), entry)

\* the logEntry of performUpdate
updateLogEntry(latestRevision, metadata, changes) ==
    [revisionId |-> latestRevision.id,
     timestamp |-> latestRevision.modifiedTime,
     company |-> metadata.company,
     jobTitle |-> metadata.jobTitle,
     jobUrl |-> metadata.jobUrl,
     changes |-> changes,
     isRevert |-> FALSE]

\* (mutant) the entry takes the id of the revision reverted to
revertLogEntry_targetId(latestRevision, targetEntry) ==
    [revisionId |-> targetEntry.revisionId,
     timestamp |-> latestRevision.modifiedTime,
     company |-> Undefined,
     jobTitle |-> Undefined,
     jobUrl |-> Undefined,
     changes |-> <<S_revertedTo \o targetEntry.revisionId>>,
     isRevert |-> TRUE]

\* the logEntry of handleRevert
revertLogEntry(latestRevision, targetEntry) ==
    [revisionId |-> latestRevision.id,
     timestamp |-> latestRevision.modifiedTime,
     company |-> Undefined,
     jobTitle |-> Undefined,
     jobUrl |-> Undefined,
     changes |-> <<S_revertedTo \o targetEntry.revisionId>>,
     isRevert |-> TRUE]

\* jobs_queue.json: the whole JSON text of an array of entries, or the text
\* of a proper prefix of a write
JobQueueFile(es) == [exists |-> TRUE, whole |-> TRUE, content |-> es]
PartialJobQueueFile(es) == [exists |-> TRUE, whole |-> FALSE, content |-> es]

\* readJobQueue: [] when the file is absent or JSON.parse throws
readJobQueue(f) ==
    IF ~f.exists THEN <<>>
    ELSE IF f.whole THEN f.content
    ELSE <<>>

(***************************************************************************)
(* The remote document service.                                            *)
(***************************************************************************)
\* The ids the service may give a revision.  The code takes an id as an opaque
\* string (googleDrive.ts, getRevisions), so the service's choice is free; the
\* pool holds the only strings the selectors of revert, tag and export can
\* match (see revertArg, tagArg, exportArg).
RevisionIds == {W_revert, W_tag, W_export}

\* the id of the revision the document has before the first run
BaselineId == <<"1">>

\* the text of the document before the first run
InitialText == <<"a", " ", "b">>

NoRevision == [id |-> Undefined, modifiedTime |-> 0, content |-> <<>>]

\* the revision a successful mutation of the document adds: a fresh id, the
\* next modification time, and the text the document then has
newRevision(revs, id, text) == [id |-> id, modifiedTime |-> Len(revs) + 1, content |-> text]

usedIds(revs) == {revs[i].id : i \in 1..Len(revs)}

\* the batch of replaceAllText requests, applied in order to the live text
RECURSIVE batchReplace(_, _)
batchReplace(text, requests) ==
    IF requests = <<>> THEN text
    ELSE batchReplace(replaceAllText(text, Head(requests).original, Head(requests).replacement),
                      Tail(requests))

(***************************************************************************)
(* Inputs of a run.                                                        *)
(***************************************************************************)
\* what the generation service may answer (AlignmentSchema: at least one
\* replacement and one summary line)
Suggestions ==
    { [replacements |-> << [original |-> <<"a">>, replacement |-> <<"c">>] >>,
       summary |-> << <<"s">> >>],
      [replacements |-> << [original |-> <<"z">>, replacement |-> <<"a">>] >>,
       summary |-> << <<"t">> >>] }

\* the selector tokens a user may type after revert, tag, export
Tokens == {<<"0">>, <<"1">>, <<"9">>}

\* process.argv.slice(2)
UpdateArgs ==
    { <<W_update, F_jd, <<"j">> >>,
      <<W_update, F_jd, <<"j">>, F_dryRun>> }

RevertArgs == { <<W_revert, t>> : t \in Tokens }

TagArgs ==
    { <<W_tag, t, F_company, S_acme>> : t \in Tokens }
        \cup { <<W_tag, <<"0">> >>, <<W_tag, <<"0">>, F_jobTitle, <<"T">>, F_url, <<"U">> >> }

ExportArgs == { <<W_export, t>> : t \in Tokens }

ListArgs == { <<W_list>>, <<W_list, F_company, <<"a", "c">> >>, <<W_list, F_j, <<"T">> >> }

SearchArgs == { <<W_search>>, <<W_search, <<"a", "c">> >> }

ArgVectors == UpdateArgs \cup RevertArgs \cup TagArgs \cup ExportArgs \cup ListArgs \cup SearchArgs

\* (mutant) only the argument after the command word is looked at
isDryRun_secondOnly(argv) == Len(argv) >= 2 /\ argv[2] = F_dryRun

\* isDryRun
isDryRun(argv) == \E i \in 1..Len(argv) : argv[i] = F_dryRun

\* getMetadata, for a job description given as text from which nothing is
\* auto-extracted: the explicit flags only
getMetadata(argv) ==
    LET companyIndex == indexOf(argv, F_company)
        jobTitleIndex == indexOf(argv, F_jobTitle)
    IN  [company |-> IF companyIndex # -1 /\ argAt(argv, companyIndex + 1) # Undefined
                     THEN argAt(argv, companyIndex + 1) ELSE Undefined,
         jobTitle |-> IF jobTitleIndex # -1 /\ argAt(argv, jobTitleIndex + 1) # Undefined
                      THEN argAt(argv, jobTitleIndex + 1) ELSE Undefined,
         jobUrl |-> Undefined]

(***************************************************************************)
(* State.                                                                  *)
(***************************************************************************)
VARIABLES
    file,       \* resume_versions.json
    revisions,  \* the remote revision sequence, oldest first
    docText,    \* the live text of the document
    pc,         \* where the running process is; "idle" when none runs
    args,       \* process.argv.slice(2) of the running process
    loc,        \* the local variables of the running handler
    exitCode,   \* "none" while running, then "0", "1" or "killed"
    calls,      \* the functions of googleDrive.ts / groqClient.ts called by this run, in order
    file0,      \* the stored file when this run started
    revs0,      \* the number of remote revisions when this run started
    queue,      \* jobs_queue.json
    queue0      \* jobs_queue.json when this run started

vars == <<file, revisions, docText, pc, args, loc, exitCode, calls, file0, revs0, queue, queue0>>

remote == <<revisions, docText>>

NoResult == [replacements |-> <<>>, changes |-> <<>>]
NoSuggestions == [replacements |-> <<>>, summary |-> <<>>]
NoEntry ==
    [revisionId |-> Undefined, timestamp |-> 0, company |-> Undefined, jobTitle |-> Undefined,
     jobUrl |-> Undefined, changes |-> <<>>, isRevert |-> FALSE]
NoMetadata == [company |-> Undefined, jobTitle |-> Undefined, jobUrl |-> Undefined]

NoLocals ==
    [dryRun |-> FALSE,
     metadata |-> NoMetadata,
     currentText |-> <<>>,
     result |-> NoResult,
     applied |-> FALSE,
     latestRevision |-> NoRevision,
     logEntry |-> NoEntry,
     selector |-> Undefined,
     localEntries |-> <<>>,
     target |-> 0,
     oldContent |-> <<>>,
     fellBack |-> FALSE,
     warned |-> FALSE,
     data |-> <<>>,
     missingRevisions |-> <<>>,
     extraRevisions |-> <<>>,
     desyncWarned |-> FALSE,
     tableData |-> <<>>,
     tableShown |-> FALSE,
     suggestions |-> NoSuggestions,
     skipped |-> <<>>,
     again |-> <<>>,
     attempt |-> 1,
     requests |-> 0,
     errors |-> <<>>,
     jobs |-> <<>>,
     responses |-> <<>>,
     i |-> 0,
     results |-> <<>>,
     probes |-> <<>>,
     companies |-> <<>>,
     c |-> 0,
     allJobs |-> <<>>,
     urls |-> <<>>,
     queue |-> <<>>]

Init ==
    /\ file = NoFile
    /\ revisions = <<newRevision(<<>>, BaselineId, InitialText)>>
    /\ docText = InitialText
    /\ pc = "idle"
    /\ args = <<>>
    /\ loc = NoLocals
    /\ exitCode = "none"
    /\ calls = <<>>
    /\ file0 = NoFile
    /\ revs0 = 0
    /\ queue = NoFile
    /\ queue0 = NoFile

\* the run may add a revision and a log entry without passing the bounds
mayMutate == Len(revisions) < MaxRevs /\ Len(file.content) < MaxLog

\* process.exit(code), or the end of main
exit(code) ==
    /\ pc' = "done"
    /\ exitCode' = code

(***************************************************************************)
(* The switch of main: the handler of each command word.                   *)
(***************************************************************************)
\* (mutant) export runs the handler of revert
handlerOf_exportReverts(mode) ==
    CASE mode = W_update -> "performUpdate"
      [] mode = W_batch -> "handleBatch"
      [] mode = W_list -> "handleList"
      [] mode = W_revert -> "handleRevert"
      [] mode = W_export -> "handleRevert"
      [] mode = W_monitor -> "handleMonitor"
      [] mode = W_search -> "handleSearch"
      [] mode = W_tag -> "handleTag"
      [] OTHER -> "usage"

handlerOf(mode) ==
    CASE mode = W_update -> "performUpdate"
      [] mode = W_batch -> "handleBatch"
      [] mode = W_list -> "handleList"
      [] mode = W_revert -> "handleRevert"
      [] mode = W_export -> "handleExport"
      [] mode = W_monitor -> "handleMonitor"
      [] mode = W_search -> "handleSearch"
      [] mode = W_tag -> "handleTag"
      [] OTHER -> "usage"

(***************************************************************************)
(* main: dispatch on process.argv[2].                                      *)
(***************************************************************************)
run(argvs) ==
    /\ pc = "idle"
    /\ \E argv \in argvs :
        /\ (argv[1] = W_update /\ ~isDryRun(argv)) => mayMutate
        /\ argv[1] = W_revert => mayMutate
        /\ args' = argv
        /\ loc' = [NoLocals EXCEPT !.dryRun = isDryRun(argv), !.metadata = getMetadata(argv)]
        /\ pc' = handlerOf(argv[1])
    /\ exitCode' = "none"
    /\ calls' = <<>>
    /\ file0' = file
    /\ revs0' = Len(revisions)
    /\ queue0' = queue
    /\ UNCHANGED queue
    /\ UNCHANGED <<file, remote>>

main == run(ArgVectors)

(***************************************************************************)
(* The loops of handleBatch and of handleMonitor --process, from the       *)
(* return of one item's cycle to the start of the next or to the end.      *)
(***************************************************************************)
\* the locals of the handler kept, those of performUpdate as at its start
cycleLocals(l, metadata) ==
    [NoLocals EXCEPT !.dryRun = l.dryRun, !.urls = l.urls, !.i = l.i,
                     !.results = l.results, !.queue = l.queue, !.metadata = metadata]

\* (mutant) any failed item makes the status 1
batchStatus_anyFailed(results) ==
    LET failed == Len(SelectSeq(results, LAMBDA r : ~r.success))
    IN  IF failed > 0 THEN "1" ELSE "0"

\* the status handleBatch ends with
batchStatus(results) ==
    LET successful == Len(SelectSeq(results, LAMBDA r : r.success))
        failed == Len(SelectSeq(results, LAMBDA r : ~r.success))
    IN  IF failed > 0 /\ successful = 0 THEN "1" ELSE "0"

\* queue.filter((_, i) => !results[i]?.success)
remainingJobs(jobQueue, results) ==
    LET kept == SelectSeq([i \in 1..Len(jobQueue) |-> i],
                          LAMBDA i : ~(i <= Len(results) /\ results[i].success))
    IN  [k \in 1..Len(kept) |-> jobQueue[kept[k]]]

\* (mutant) the next item is fetched before the cycle of this one has run
afterFetch_prefetch(l) ==
    IF l.i + 1 < Len(l.urls) THEN [pc |-> "fetchJobDescriptionFromUrl", i |-> l.i + 1]
    ELSE [pc |-> "performUpdate", i |-> l.i]

\* where the loop body goes when fetchJobDescriptionFromUrl has returned
afterFetch(l) == [pc |-> "performUpdate", i |-> l.i]

\* results.push(...) for the item in hand
pushResult(l, success) ==
    [l EXCEPT !.results =
        Append(@, [url |-> l.urls[l.i + 1], success |-> success,
                   revisionId |-> IF success THEN l.latestRevision.id ELSE Undefined])]

\* handleBatch after results.push: the next item up to its fetch, or the
\* summary and the end
handleBatch_next(l) ==
    IF l.i + 1 < Len(l.urls)
    THEN /\ loc' = cycleLocals([l EXCEPT !.i = @ + 1], NoMetadata)
         /\ pc' = "fetchJobDescriptionFromUrl"
         /\ UNCHANGED <<exitCode, queue>>
    ELSE /\ loc' = [l EXCEPT !.i = @ + 1]
         /\ exit(batchStatus(l.results))
         /\ UNCHANGED queue

\* handleMonitor after results.push: the next item up to its fetch, or the
\* write of the jobs that remain
handleMonitor_next(l) ==
    IF l.i + 1 < Len(l.urls)
    THEN /\ loc' = cycleLocals([l EXCEPT !.i = @ + 1], NoMetadata)
         /\ pc' = "fetchJobDescriptionFromUrl"
         /\ UNCHANGED <<exitCode, queue>>
    ELSE LET remaining == remainingJobs(l.queue, l.results)
         IN  /\ loc' = [l EXCEPT !.i = @ + 1]
             /\ \/ /\ queue' = JobQueueFile(remaining)
                   /\ exit("0")
                \/ /\ \E k \in 0..(Len(remaining) - 1) :
                         queue' = PartialJobQueueFile(SubSeq(remaining, 1, k))
                   /\ exit("1")

\* The end of performUpdate with {success}, or of a handler by return
\* (success) or by a throw that reaches main; l is the locals then.  After
\* performUpdate, handleUpdate exits with 1 on a failure, handleBatch and
\* handleMonitor push the result and go on.
finish(success, l) ==
    IF argAt(args, 0) = W_batch THEN handleBatch_next(pushResult(l, success))
    ELSE IF argAt(args, 0) = W_monitor THEN handleMonitor_next(pushResult(l, success))
    ELSE /\ loc' = l
         /\ exit(IF success THEN "0" ELSE "1")
         /\ UNCHANGED queue

(***************************************************************************)
(* performUpdate.  Every throw inside it is caught and becomes             *)
(* {success: false}.                                                       *)
(***************************************************************************)
performUpdate_getResumeText ==
    /\ pc = "performUpdate"
    /\ calls' = Append(calls, "getResumeText")
    /\ \/ /\ loc' = [loc EXCEPT !.currentText = docText]
          /\ pc' = "getResumeReplacements"
          /\ UNCHANGED <<exitCode, queue>>
       \/ finish(FALSE, loc)
    /\ UNCHANGED <<file, remote, args, file0, revs0, queue0>>

performUpdate_getResumeReplacements ==
    /\ pc = "getResumeReplacements"
    /\ calls' = IF loc.attempt = 1 THEN Append(calls, "getResumeReplacements") ELSE calls
    /\ \/ \E s \in Suggestions :
            LET l == [loc EXCEPT
                          !.requests = @ + 1,
                          !.suggestions = s,
                          !.result = getResumeReplacements(loc.currentText, s),
                          !.skipped = skipLines(loc.currentText, s.replacements)]
            IN  IF loc.dryRun
                THEN finish(TRUE, l)
                ELSE /\ loc' = l
                     /\ pc' = "applyWordReplacements"
                     /\ UNCHANGED <<exitCode, queue>>
       \/ \E error \in PostErrors :
            LET l == [loc EXCEPT !.requests = @ + 1, !.errors = Append(@, error)]
            IN  IF error.isAxiosError /\ error.response
                THEN finish(FALSE, l)
                ELSE IF isRetryable(loc.attempt, error.message)
                THEN /\ loc' = l
                     /\ pc' = "retryDelay"
                     /\ UNCHANGED <<exitCode, queue>>
                ELSE finish(FALSE, l)
    /\ UNCHANGED <<file, remote, args, file0, revs0, queue0>>

\* the wait before the next attempt, and the end of the loop
getAlignmentSuggestions_delay ==
    /\ pc = "retryDelay"
    /\ LET l == [loc EXCEPT !.attempt = @ + 1]
       IN  IF loc.attempt + 1 <= maxRetries
           THEN /\ loc' = l
                /\ pc' = "getResumeReplacements"
                /\ UNCHANGED <<exitCode, queue>>
           ELSE finish(FALSE, l)
    /\ UNCHANGED <<file, remote, args, calls, file0, revs0, queue0>>

\* applyWordReplacements: no request, no batchUpdate; else one batchUpdate,
\* which on success changes the live text and adds a revision
performUpdate_applyWordReplacements ==
    /\ pc = "applyWordReplacements"
    /\ calls' = Append(calls, "applyWordReplacements")
    /\ \/ /\ loc.result.replacements = <<>>
          /\ loc' = [loc EXCEPT !.applied = TRUE]
          /\ pc' = "getRevisions"
          /\ UNCHANGED <<remote, exitCode, queue>>
       \/ /\ loc.result.replacements # <<>>
          /\ \E id \in RevisionIds \ usedIds(revisions) :
               LET text == batchReplace(docText, loc.result.replacements)
               IN  /\ docText' = text
                   /\ revisions' = Append(revisions, newRevision(revisions, id, text))
          /\ loc' = [loc EXCEPT !.applied = TRUE]
          /\ pc' = "getRevisions"
          /\ UNCHANGED <<exitCode, queue>>
       \/ /\ finish(FALSE, loc)
          /\ UNCHANGED remote
    /\ UNCHANGED <<file, args, file0, revs0, queue0>>

\* getRevisions, then the log entry and appendVersionLog up to the write
performUpdate_getRevisions ==
    /\ pc = "getRevisions"
    /\ calls' = Append(calls, "getRevisions")
    /\ \/ LET latestRevision == revisions[Len(revisions)]
              logEntry == updateLogEntry(latestRevision, loc.metadata, loc.result.changes)
          IN  /\ loc' = [loc EXCEPT !.latestRevision = latestRevision,
                                    !.logEntry = logEntry,
                                    !.data = appendVersionLog(file, logEntry)]
              /\ pc' = "writeVersionLog"
              /\ UNCHANGED <<exitCode, queue>>
       \/ finish(FALSE, loc)
    /\ UNCHANGED <<file, remote, args, file0, revs0, queue0>>

(***************************************************************************)
(* Target selection, written out three times in the code (handleTag,       *)
(* handleRevert, handleExport): index first, then revision id.  The result *)
(* is the position of the entry in localEntries, 0 when there is none.     *)
(***************************************************************************)
\* (mutant) a miss of findIndex, -1, is used as an index from the end
selectTarget_lastOnMiss(localEntries, arg) ==
    LET index == parseInt(arg)
    IN  IF ~isNaN(index) /\ index.val >= 0 /\ index.val < Len(localEntries)
        THEN index.val + 1
        ELSE IF \E i \in 1..Len(localEntries) : localEntries[i].revisionId = arg
             THEN CHOOSE i \in 1..Len(localEntries) :
                      /\ localEntries[i].revisionId = arg
                      /\ \A j \in 1..(i - 1) : localEntries[j].revisionId # arg
             ELSE Len(localEntries)

\* (mutant) the revision id is tried before the index
selectTarget_idFirst(localEntries, arg) ==
    LET index == parseInt(arg)
    IN  IF \E i \in 1..Len(localEntries) : localEntries[i].revisionId = arg
        THEN CHOOSE i \in 1..Len(localEntries) :
                 /\ localEntries[i].revisionId = arg
                 /\ \A j \in 1..(i - 1) : localEntries[j].revisionId # arg
        ELSE IF ~isNaN(index) /\ index.val >= 0 /\ index.val < Len(localEntries)
             THEN index.val + 1
             ELSE 0

selectTarget(localEntries, arg) ==
    LET index == parseInt(arg)
    IN  IF ~isNaN(index) /\ index.val >= 0 /\ index.val < Len(localEntries)
        THEN index.val + 1
        ELSE IF \E i \in 1..Len(localEntries) : localEntries[i].revisionId = arg
             THEN CHOOSE i \in 1..Len(localEntries) :
                      /\ localEntries[i].revisionId = arg
                      /\ \A j \in 1..(i - 1) : localEntries[j].revisionId # arg
             ELSE 0

\* the selector each of the three handlers resolves
revertArg(argv) == firstNonFlag(argv)
tagArg(argv) == firstNonFlag(argv)
exportArg(argv) == firstNonFlag(argv)

(***************************************************************************)
(* handleRevert.  A throw propagates to main, which exits with 1.          *)
(***************************************************************************)
handleRevert_select ==
    /\ pc = "handleRevert"
    /\ LET localEntries == readVersionLog(file)
           target == selectTarget(localEntries, revertArg(args))
       IN  /\ loc' = [loc EXCEPT !.selector = revertArg(args),
                                 !.localEntries = localEntries,
                                 !.target = target]
           /\ IF revertArg(args) = Undefined \/ target = 0
              THEN exit("1")
              ELSE pc' = "getRevisionContent" /\ UNCHANGED exitCode
    /\ UNCHANGED <<file, remote, args, calls, file0, revs0, queue, queue0>>

\* the content the service holds for a revision id
\* getRevisionContent, up to its return or its fallback: revisions.get answers
\* with a string, answers with something that is no string, or throws
getRevisionContent_get ==
    /\ pc = "getRevisionContent"
    /\ calls' = Append(calls, "getRevisionContent")
    /\ LET revisionId == loc.localEntries[loc.target].revisionId
       IN  \/ /\ \E i \in 1..Len(revisions) :
                    /\ revisions[i].id = revisionId
                    /\ loc' = [loc EXCEPT !.oldContent = revisions[i].content]
              /\ pc' = "updateResumeText"
              /\ UNCHANGED exitCode
           \/ /\ loc' = loc
              /\ pc' = "getRevisionContent_fallback"
              /\ UNCHANGED exitCode
           \/ /\ loc' = [loc EXCEPT !.warned = TRUE]
              /\ pc' = "getRevisionContent_fallback"
              /\ UNCHANGED exitCode
           \/ /\ exit("1")
              /\ UNCHANGED loc
    /\ UNCHANGED <<file, remote, args, file0, revs0, queue, queue0>>

\* the fallback of getRevisionContent: the current text of the document
getRevisionContent_fallback ==
    /\ pc = "getRevisionContent_fallback"
    /\ calls' = Append(calls, "getResumeText")
    /\ \/ /\ loc' = [loc EXCEPT !.oldContent = docText, !.fellBack = TRUE]
          /\ pc' = "updateResumeText"
          /\ UNCHANGED exitCode
       \/ /\ exit("1")
          /\ UNCHANGED loc
    /\ UNCHANGED <<file, remote, args, file0, revs0, queue, queue0>>

\* (mutant) a failed overwrite is swallowed and the run goes on to the log
handleRevert_updateResumeText_swallow ==
    /\ pc = "updateResumeText"
    /\ calls' = Append(calls, "updateResumeText")
    /\ \/ /\ \E id \in RevisionIds \ usedIds(revisions) :
               /\ docText' = loc.oldContent
               /\ revisions' = Append(revisions, newRevision(revisions, id, loc.oldContent))
          /\ pc' = "handleRevert_getRevisions"
          /\ UNCHANGED exitCode
       \/ /\ pc' = "handleRevert_getRevisions"
          /\ UNCHANGED <<remote, exitCode>>
    /\ UNCHANGED <<file, args, loc, file0, revs0, queue, queue0>>

\* updateResumeText: documents.get, then one batchUpdate that deletes the body
\* and inserts the text; on success the service adds a revision
handleRevert_updateResumeText ==
    /\ pc = "updateResumeText"
    /\ calls' = Append(calls, "updateResumeText")
    /\ \/ /\ \E id \in RevisionIds \ usedIds(revisions) :
               /\ docText' = loc.oldContent
               /\ revisions' = Append(revisions, newRevision(revisions, id, loc.oldContent))
          /\ pc' = "handleRevert_getRevisions"
          /\ UNCHANGED exitCode
       \/ /\ exit("1")
          /\ UNCHANGED remote
    /\ UNCHANGED <<file, args, loc, file0, revs0, queue, queue0>>

handleRevert_getRevisions ==
    /\ pc = "handleRevert_getRevisions"
    /\ calls' = Append(calls, "getRevisions")
    /\ \/ LET latestRevision == revisions[Len(revisions)]
              logEntry == revertLogEntry(latestRevision, loc.localEntries[loc.target])
          IN  /\ loc' = [loc EXCEPT !.latestRevision = latestRevision,
                                    !.logEntry = logEntry,
                                    !.data = appendVersionLog(file, logEntry)]
              /\ pc' = "writeVersionLog"
              /\ UNCHANGED exitCode
       \/ /\ exit("1")
          /\ UNCHANGED loc
    /\ UNCHANGED <<file, remote, args, file0, revs0, queue, queue0>>

(***************************************************************************)
(* handleTag.                                                              *)
(***************************************************************************)
\* the flag values of handleTag
tagValue(argv, flag) ==
    IF indexOf(argv, flag) # -1 /\ argAt(argv, indexOf(argv, flag) + 1) # Undefined
    THEN argAt(argv, indexOf(argv, flag) + 1)
    ELSE Undefined

\* (mutant) a field for which no value is supplied is cleared
tagEntry_clearUnsupplied(targetEntry, company, jobTitle, jobUrl) ==
    [targetEntry EXCEPT !.company = company, !.jobTitle = jobTitle, !.jobUrl = jobUrl]

\* the metadata update of handleTag on the target entry
tagEntry(targetEntry, company, jobTitle, jobUrl) ==
    [targetEntry EXCEPT
        !.company = IF company # Undefined THEN company ELSE @,
        !.jobTitle = IF jobTitle # Undefined THEN jobTitle ELSE @,
        !.jobUrl = IF jobUrl # Undefined THEN jobUrl ELSE @]

handleTag ==
    /\ pc = "handleTag"
    /\ LET company == tagValue(args, F_company)
           jobTitle == tagValue(args, F_jobTitle)
           jobUrl == tagValue(args, F_url)
           localEntries == readVersionLog(file)
           target == selectTarget(localEntries, tagArg(args))
       IN  IF tagArg(args) = Undefined
              \/ (company = Undefined /\ jobTitle = Undefined /\ jobUrl = Undefined)
           THEN exit("1") /\ UNCHANGED loc
           ELSE /\ loc' = [loc EXCEPT
                               !.selector = tagArg(args),
                               !.localEntries = localEntries,
                               !.target = target,
                               !.data = IF target = 0 THEN <<>>
                                        ELSE [localEntries EXCEPT
                                                 ![target] = tagEntry(localEntries[target],
                                                                      company, jobTitle, jobUrl)]]
                /\ IF target = 0
                   THEN exit("1")
                   ELSE pc' = "writeVersionLog" /\ UNCHANGED exitCode
    /\ UNCHANGED <<file, remote, args, calls, file0, revs0, queue, queue0>>

(***************************************************************************)
(* handleExport.                                                           *)
(***************************************************************************)
handleExport_select ==
    /\ pc = "handleExport"
    /\ LET localEntries == readVersionLog(file)
           target == selectTarget(localEntries, exportArg(args))
       IN  /\ loc' = [loc EXCEPT !.selector = exportArg(args),
                                 !.localEntries = localEntries,
                                 !.target = target]
           /\ IF exportArg(args) = Undefined \/ target = 0
              THEN exit("1")
              ELSE pc' = "exportRevision" /\ UNCHANGED exitCode
    /\ UNCHANGED <<file, remote, args, calls, file0, revs0, queue, queue0>>

\* exportRevision exports the current document, whatever the target
handleExport_exportRevision ==
    /\ pc = "exportRevision"
    /\ calls' = Append(calls, "exportRevision")
    /\ \/ exit("0")
       \/ exit("1")
    /\ UNCHANGED <<file, remote, args, loc, file0, revs0, queue, queue0>>

(***************************************************************************)
(* handleList: the filters, the reconciliation of the log with the remote  *)
(* revisions, the table.                                                   *)
(***************************************************************************)
\* the loop over args: the value after the last occurrence of one of flags
\* that has a value after it
listFilter(argv, flags) ==
    LET hits == {i \in 1..(Len(argv) - 1) : argv[i] \in flags /\ argv[i + 1] # Undefined}
    IN  IF hits = {} THEN Undefined
        ELSE argv[(CHOOSE i \in hits : \A j \in hits : j <= i) + 1]

companyFilter(argv) == listFilter(argv, {F_company, F_c})
jobFilter(argv) == listFilter(argv, {F_job, F_jobTitle, F_j})

\* entries.filter(entry => entry[key]?.toLowerCase().includes(filter.toLowerCase()))
filterBy(entries, key, filter) ==
    SelectSeq(entries,
              LAMBDA e : e[key] # Undefined /\ includes(toLowerCase(e[key]), toLowerCase(filter)))

\* localEntries of handleList after both filters
filteredEntries(allEntries, argv) ==
    LET byCompany == IF companyFilter(argv) # Undefined
                     THEN filterBy(allEntries, "company", companyFilter(argv))
                     ELSE allEntries
    IN  IF jobFilter(argv) # Undefined
        THEN filterBy(byCompany, "jobTitle", jobFilter(argv))
        ELSE byCompany

\* extraRevisions: the revisionId of each entry that no remote revision has
extraRevisions(allEntries, driveRevisions) ==
    SelectSeq([i \in 1..Len(allEntries) |-> allEntries[i].revisionId],
              LAMBDA id : ~\E j \in 1..Len(driveRevisions) : driveRevisions[j].id = id)

\* (mutant) the first remote revision is reported like the others
missingRevisions_withFirst(allEntries, driveRevisions) ==
    SelectSeq([j \in 1..Len(driveRevisions) |-> driveRevisions[j].id],
              LAMBDA id : ~\E i \in 1..Len(allEntries) : allEntries[i].revisionId = id)

\* missingRevisions: the id of each remote revision that no entry has and that
\* is not the id of the first remote revision
missingRevisions(allEntries, driveRevisions) ==
    SelectSeq([j \in 1..Len(driveRevisions) |-> driveRevisions[j].id],
              LAMBDA id : /\ ~\E i \in 1..Len(allEntries) : allEntries[i].revisionId = id
                          /\ id # driveRevisions[1].id)

\* entry.revisionId.substring(0, 8) + '...'
shortId(id) == SubSeq(id, 1, IF Len(id) < 8 THEN Len(id) ELSE 8) \o S_ellipsis

\* the rows of the table of handleList
listTable(localEntries, driveRevisions) ==
    [i \in 1..Len(localEntries) |->
        [Index |-> i - 1,
         RevisionID |-> shortId(localEntries[i].revisionId),
         Timestamp |-> localEntries[i].timestamp,
         Company |-> localEntries[i].company,
         JobTitle |-> localEntries[i].jobTitle,
         ChangeCount |-> Len(localEntries[i].changes),
         Type |-> IF localEntries[i].isRevert THEN "Revert" ELSE "Update",
         InDrive |-> \E j \in 1..Len(driveRevisions) :
                        driveRevisions[j].id = localEntries[i].revisionId]]

\* (mutant) a desync ends the command before the table
listOutcome_stopOnDesync(driveRevisions, f, argv) ==
    LET allEntries == readVersionLog(f)
        missing == missingRevisions(allEntries, driveRevisions)
        extra == extraRevisions(allEntries, driveRevisions)
        desync == Len(missing) > 0 \/ Len(extra) > 0
    IN  [missingRevisions |-> missing,
         extraRevisions |-> extra,
         desyncWarned |-> desync,
         tableData |-> IF desync THEN <<>>
                       ELSE listTable(filteredEntries(readVersionLog(f), argv), driveRevisions),
         tableShown |-> ~desync,
         code |-> IF desync THEN "1" ELSE "0"]

\* handleList from the return of getRevisions to its end
listOutcome(driveRevisions, f, argv) ==
    LET localEntries == filteredEntries(readVersionLog(f), argv)
        allEntries == readVersionLog(f)
        missing == missingRevisions(allEntries, driveRevisions)
        extra == extraRevisions(allEntries, driveRevisions)
    IN  [missingRevisions |-> missing,
         extraRevisions |-> extra,
         desyncWarned |-> Len(missing) > 0 \/ Len(extra) > 0,
         tableData |-> listTable(localEntries, driveRevisions),
         tableShown |-> TRUE,
         code |-> "0"]

handleList ==
    /\ pc = "handleList"
    /\ calls' = Append(calls, "getRevisions")
    /\ \/ LET out == listOutcome(revisions, file, args)
          IN  /\ loc' = [loc EXCEPT !.missingRevisions = out.missingRevisions,
                                    !.extraRevisions = out.extraRevisions,
                                    !.desyncWarned = out.desyncWarned,
                                    !.tableData = out.tableData,
                                    !.tableShown = out.tableShown]
              /\ exit(out.code)
       \/ /\ exit("1")
          /\ UNCHANGED loc
    /\ UNCHANGED <<file, remote, args, file0, revs0, queue, queue0>>

(***************************************************************************)
(* handleSearch.                                                           *)
(***************************************************************************)
\* args.slice(1).find((arg) => !arg.startsWith('--'))
searchTerm(argv) == firstNonFlag(Tail(argv))

\* does the filter callback of handleSearch keep the entry
searchMatch(entry, term) ==
    \/ entry.company # Undefined /\ includes(toLowerCase(entry.company), toLowerCase(term))
    \/ entry.jobTitle # Undefined /\ includes(toLowerCase(entry.jobTitle), toLowerCase(term))

\* matches, each entry given by its position in localEntries (the entries are
\* objects of that array, so localEntries.indexOf(entry) is that position)
searchMatches(localEntries, term) ==
    SelectSeq([i \in 1..Len(localEntries) |-> i],
              LAMBDA i : searchMatch(localEntries[i], term))

\* the rows of the table of handleSearch
searchTable(localEntries, matches) ==
    [m \in 1..Len(matches) |->
        [Index |-> matches[m] - 1,
         RevisionID |-> shortId(localEntries[matches[m]].revisionId),
         Timestamp |-> localEntries[matches[m]].timestamp,
         Company |-> localEntries[matches[m]].company,
         JobTitle |-> localEntries[matches[m]].jobTitle,
         ChangeCount |-> Len(localEntries[matches[m]].changes)]]

handleSearch ==
    /\ pc = "handleSearch"
    /\ IF searchTerm(args) = Undefined
       THEN exit("1") /\ UNCHANGED loc
       ELSE LET localEntries == readVersionLog(file)
                matches == searchMatches(localEntries, searchTerm(args))
            IN  /\ loc' = [loc EXCEPT !.selector = searchTerm(args),
                                      !.localEntries = localEntries,
                                      !.tableData = searchTable(localEntries, matches),
                                      !.tableShown = Len(matches) # 0]
                /\ exit("0")
    /\ UNCHANGED <<file, remote, args, calls, file0, revs0, queue, queue0>>

(***************************************************************************)
(* writeVersionLog: writeFileSync opens the file truncating it, writes the *)
(* text, closes.                                                           *)
(***************************************************************************)
writeVersionLog_open ==
    /\ pc = "writeVersionLog"
    /\ \/ /\ file' = PartialFile(<<>>)
          /\ pc' = "writeFile"
          /\ UNCHANGED <<loc, exitCode, queue>>
       \/ /\ finish(FALSE, loc)
          /\ UNCHANGED file
    /\ UNCHANGED <<remote, args, calls, file0, revs0, queue0>>

writeVersionLog_write ==
    /\ pc = "writeFile"
    /\ \/ /\ file' = WholeFile(loc.data)
          /\ finish(TRUE, loc)
       \/ /\ \E k \in 0..(Len(loc.data) - 1) : file' = PartialFile(SubSeq(loc.data, 1, k))
          /\ finish(FALSE, loc)
    /\ UNCHANGED <<remote, args, calls, file0, revs0, queue0>>

(***************************************************************************)
(* The process is stopped from outside, at any point.                      *)
(***************************************************************************)
Kill ==
    /\ pc \notin {"idle", "done"}
    /\ exit("killed")
    /\ IF pc = "writeFile"
       THEN \E k \in 0..(Len(loc.data) - 1) : file' = PartialFile(SubSeq(loc.data, 1, k))
       ELSE UNCHANGED file
    /\ UNCHANGED <<remote, args, loc, calls, file0, revs0, queue, queue0>>

\* the process has ended; the next one may start
Return ==
    /\ pc = "done"
    /\ pc' = "idle"
    /\ args' = <<>>
    /\ loc' = NoLocals
    /\ exitCode' = "none"
    /\ calls' = <<>>
    /\ file0' = file
    /\ revs0' = Len(revisions)
    /\ queue0' = queue
    /\ UNCHANGED queue
    /\ UNCHANGED <<file, remote>>

Next ==
    \/ main
    \/ performUpdate_getResumeText
    \/ performUpdate_getResumeReplacements
    \/ getAlignmentSuggestions_delay
    \/ performUpdate_applyWordReplacements
    \/ performUpdate_getRevisions
    \/ handleRevert_select
    \/ getRevisionContent_get
    \/ getRevisionContent_fallback
    \/ handleRevert_updateResumeText
    \/ handleRevert_getRevisions
    \/ handleTag
    \/ handleExport_select
    \/ handleExport_exportRevision
    \/ handleList
    \/ handleSearch
    \/ writeVersionLog_open
    \/ writeVersionLog_write
    \/ Kill
    \/ Return

Spec == Init /\ [][Next]_vars

(***************************************************************************)
(* Target selection on its own: the selection code of the handlers applied *)
(* to any stored log and any selector.                                     *)
(***************************************************************************)
\* the longest log of SpecSelect
MaxSelectLen == 3

SelectIds == {<<"0">>, <<"1">>, <<"x">>}
SelectTokens == {<<"0">>, <<"1">>, <<"3">>, <<"x">>, <<"1", "x">>, <<"y">>}

selectEntry(id) ==
    [revisionId |-> id, timestamp |-> 0, company |-> Undefined, jobTitle |-> Undefined,
     jobUrl |-> Undefined, changes |-> <<>>, isRevert |-> FALSE]

SelectLogs ==
    UNION { [1..n -> {selectEntry(id) : id \in SelectIds}] : n \in 0..MaxSelectLen }

InitSelect ==
    /\ \E es \in SelectLogs : file = WholeFile(es)
    /\ \E tok \in SelectTokens : args = <<tok>>
    /\ revisions = <<>>
    /\ docText = <<>>
    /\ pc = "selectTarget"
    /\ loc = NoLocals
    /\ exitCode = "none"
    /\ calls = <<>>
    /\ file0 = file
    /\ revs0 = 0
    /\ queue = NoFile
    /\ queue0 = NoFile

\* the selection, and the exit with 1 when nothing is selected
Select ==
    /\ pc = "selectTarget"
    /\ LET localEntries == readVersionLog(file)
           target == selectTarget(localEntries, args[1])
       IN  /\ loc' = [loc EXCEPT !.selector = args[1],
                                 !.localEntries = localEntries,
                                 !.target = target]
           /\ IF target = 0
              THEN exit("1")
              ELSE pc' = "selected" /\ UNCHANGED exitCode
    /\ UNCHANGED <<file, remote, args, calls, file0, revs0, queue, queue0>>

NextSelect == Select

SpecSelect == InitSelect /\ [][NextSelect]_vars

(***************************************************************************)
(* appendVersionLog on its own: read, push, write, on any stored file and  *)
(* with any entry.                                                         *)
(***************************************************************************)
\* the longest stored log of SpecLog
MaxStored == 2

\* entries as performUpdate and handleRevert build them
StoredEntries ==
    { updateLogEntry(newRevision(<<>>, W_tag, <<>>),
                     [company |-> S_acme, jobTitle |-> Undefined, jobUrl |-> Undefined],
                     << <<"s">> >>),
      updateLogEntry(newRevision(<<>>, W_export, <<>>), NoMetadata, << <<"t">> >>),
      revertLogEntry(newRevision(<<>>, W_revert, <<>>), selectEntry(W_tag)) }

StoredLogs == UNION { [1..n -> StoredEntries] : n \in 0..MaxStored }

StoredFiles ==
    {NoFile} \cup {WholeFile(es) : es \in StoredLogs} \cup {PartialFile(es) : es \in StoredLogs}

InitLog ==
    /\ file \in StoredFiles
    /\ \E e \in StoredEntries : loc = [NoLocals EXCEPT !.logEntry = e]
    /\ revisions = <<>>
    /\ docText = <<>>
    /\ pc = "appendVersionLog"
    /\ args = <<>>
    /\ exitCode = "none"
    /\ calls = <<>>
    /\ file0 = file
    /\ revs0 = 0
    /\ queue = NoFile
    /\ queue0 = NoFile

\* appendVersionLog up to its call of writeVersionLog
AppendEntry ==
    /\ pc = "appendVersionLog"
    /\ loc' = [loc EXCEPT !.localEntries = readVersionLog(file),
                          !.data = appendVersionLog(file, loc.logEntry)]
    /\ pc' = "writeVersionLog"
    /\ UNCHANGED <<file, remote, args, exitCode, calls, file0, revs0, queue, queue0>>

NextLog ==
    \/ AppendEntry
    \/ writeVersionLog_open
    \/ writeVersionLog_write

SpecLog == InitLog /\ [][NextLog]_vars

(***************************************************************************)
(* handleList on its own: the reconciliation on any stored log and any     *)
(* remote revision sequence.                                               *)
(***************************************************************************)
\* the longest remote revision sequence and the longest log of SpecReconcile
MaxRemote == 4
MaxLocal == 2

R0 == <<"r", "0">>
R1 == <<"r", "1">>
R2 == <<"r", "2">>
R3 == <<"r", "3">>
RX == <<"r", "x">>

\* remote revision sequences: distinct ids, oldest first
RemoteSeqs ==
    UNION { { [j \in 1..n |-> newRevision(SubSeq(q, 1, j - 1), q[j], <<>>)] :
                q \in {q \in [1..n -> {R0, R1, R2, R3}] :
                            \A a, b \in 1..n : a # b => q[a] # q[b]} } :
            n \in 0..MaxRemote }

\* entries of the log: of a remote revision or of none, tagged or not
LocalEntries ==
    { updateLogEntry(newRevision(<<>>, id, <<>>),
                     [company |-> c, jobTitle |-> Undefined, jobUrl |-> Undefined],
                     << <<"s">> >>) :
        id \in {R0, R1, R2, RX}, c \in {Undefined, S_acme} }

LocalLogs == UNION { [1..n -> LocalEntries] : n \in 0..MaxLocal }

InitReconcile ==
    /\ \E es \in LocalLogs : file = WholeFile(es)
    /\ revisions \in RemoteSeqs
    /\ args \in ListArgs
    /\ docText = <<>>
    /\ pc = "handleList"
    /\ loc = NoLocals
    /\ exitCode = "none"
    /\ calls = <<>>
    /\ file0 = file
    /\ revs0 = Len(revisions)
    /\ queue = NoFile
    /\ queue0 = NoFile

NextReconcile == handleList

SpecReconcile == InitReconcile /\ [][NextReconcile]_vars

(***************************************************************************)
(* The filter of getResumeReplacements on its own: any of a few resume     *)
(* texts and any short list of candidates.                                 *)
(***************************************************************************)
\* the longest candidate list of SpecValidate
MaxCands == 2

T_built ==
    <<"B", "u", "i", "l", "t", " ", "t", "w", "o", " ", "f", "u", "l", "l",
      "-", "s", "t", "a", "c", "k", " ", "a", "p", "p", "l", "i", "c", "a",
      "t", "i", "o", "n", "s", ".">>
T_builtScaled ==
    <<"B", "u", "i", "l", "t", " ", "a", "n", "d", " ", "s", "c", "a", "l",
      "e", "d", " ", "t", "w", "o", " ", "f", "u", "l", "l", "-", "s", "t",
      "a", "c", "k", " ", "A", "I", " ", "a", "p", "p", "l", "i", "c", "a",
      "t", "i", "o", "n", "s", ".">>
T_two == <<"t", "w", "o">>

ResumeTexts == {T_built, T_two}

\* a candidate that passes
candScenarioA == [original |-> T_built, replacement |-> T_builtScaled]
\* a candidate that passes, its original inside that of candScenarioA
candOverlap == [original |-> <<"t", "w", "o", " ", "f", "u", "l", "l">>, replacement |-> <<"2">>]
\* not in either text
candAbsent == [original |-> <<"D", "e", "s", "i", "g", "n", "e", "d">>, replacement |-> <<"B", "u", "i", "l", "t">>]
\* in T_built but for the case of its first letter
candCase == [original |-> <<"b", "u", "i", "l", "t">>, replacement |-> <<"m", "a", "d", "e">>]
\* the replacement is the original but for white space at its ends
candNoop == [original |-> T_two, replacement |-> <<" ", "t", "w", "o", " ">>]
\* one word against seven
candLarge ==
    [original |-> T_two,
     replacement |-> <<"a", " ", "b", " ", "c", " ", "d", " ", "e", " ", "f", " ", "g">>]
\* one word with a blank on each side against seven
candPadded ==
    [original |-> <<" ", "t", "w", "o", " ">>,
     replacement |-> <<"a", " ", "b", " ", "c", " ", "d", " ", "e", " ", "f", " ", "g">>]

Candidates == {candScenarioA, candOverlap, candAbsent, candCase, candNoop, candLarge, candPadded}

CandidateLists == UNION { [1..n -> Candidates] : n \in 0..MaxCands }

InitValidate ==
    /\ docText \in ResumeTexts
    /\ \E cands \in CandidateLists :
          loc = [NoLocals EXCEPT !.currentText = docText,
                                 !.suggestions = [replacements |-> cands, summary |-> << <<"s">> >>]]
    /\ revisions = <<>>
    /\ pc = "validate"
    /\ args = <<>>
    /\ exitCode = "none"
    /\ calls = <<>>
    /\ file = NoFile
    /\ file0 = NoFile
    /\ revs0 = 0
    /\ queue = NoFile
    /\ queue0 = NoFile

\* getResumeReplacements from the return of getAlignmentSuggestions on
Validate ==
    /\ pc = "validate"
    /\ loc' = [loc EXCEPT
                  !.result = getResumeReplacements(loc.currentText, loc.suggestions),
                  !.skipped = skipLines(loc.currentText, loc.suggestions.replacements)]
    /\ pc' = "validated"
    /\ UNCHANGED <<file, remote, args, exitCode, calls, file0, revs0, queue, queue0>>

\* the filter once more, on what it kept
Revalidate ==
    /\ pc = "validated"
    /\ loc' = [loc EXCEPT !.again = validReplacements(loc.currentText, loc.result.replacements)]
    /\ pc' = "revalidated"
    /\ UNCHANGED <<file, remote, args, exitCode, calls, file0, revs0, queue, queue0>>

NextValidate ==
    \/ Validate
    \/ Revalidate

SpecValidate == InitValidate /\ [][NextValidate]_vars

(***************************************************************************)
(* validateJobsActive and validateJobActive of jobSource.ts: the liveness  *)
(* probes of the jobs of the long list, in batches.                        *)
(***************************************************************************)
\* the most jobs of SpecProbe
MaxJobs == 11

batchSize == 10

S_jobUrl == <<"h", "t", "t", "p", ":", "/", "/", "a", ".", "i", "o", "/", "j", "o", "b", "s", "/">>

\* the jobUrl of the n-th job of the long list; cleanData has left one job
\* for each jobUrl, so the jobUrls are distinct
jobUrlOf(n) ==
    S_jobUrl \o (IF n < 10 THEN <<Digits[n + 1]>>
                 ELSE <<Digits[(n \div 10) + 1], Digits[(n % 10) + 1]>>)

\* What the site of a jobUrl does with the HEAD and with the GET request:
\*   head: "gone" (404 or 410), "ok" (2xx), "other" (another status below
\*         500), "error" (a status from 500 or no response), "timeout"
\*   get:  "open" (a body with no closed indicator), "closed" (a body with
\*         one), "error" (no response), "timeout"
Behaviours ==
    << [head |-> "ok", get |-> "open"],
       [head |-> "timeout", get |-> "open"],
       [head |-> "ok", get |-> "timeout"],
       [head |-> "gone", get |-> "open"],
       [head |-> "ok", get |-> "closed"],
       [head |-> "other", get |-> "open"],
       [head |-> "ok", get |-> "error"],
       [head |-> "error", get |-> "open"] >>

NoProbe == [state |-> "none", calls |-> 0, heads |-> 0, gets |-> 0]

\* results.set(url, active) on a Map kept as its entries in insertion order
mapSet(m, url, active) ==
    IF \E k \in 1..Len(m) : m[k].url = url
    THEN [k \in 1..Len(m) |-> IF m[k].url = url THEN [url |-> url, active |-> active] ELSE m[k]]
    ELSE Append(m, [url |-> url, active |-> active])

mapHas(m, url) == \E k \in 1..Len(m) : m[k].url = url
mapGet(m, url) == m[CHOOSE k \in 1..Len(m) : m[k].url = url].active

\* (mutant) the batch is all that is left of the list
batchOf_rest(jobs, i) == {p \in 1..Len(jobs) : p > i}

\* jobs.slice(i, i + batchSize), as the positions of its elements
batchOf(jobs, i) == {p \in 1..Len(jobs) : p > i /\ p <= i + batchSize}

\* batch.map(async job => await validateJobActive(job.jobUrl)): each call of
\* validateJobActive runs up to its first await, the HEAD request
startBatch(l) ==
    [l EXCEPT !.probes =
        [p \in 1..Len(l.jobs) |->
            IF p \in batchOf(l.jobs, l.i)
            THEN [state |-> "head", calls |-> l.probes[p].calls + 1,
                  heads |-> l.probes[p].heads + 1, gets |-> l.probes[p].gets]
            ELSE l.probes[p]]]

\* batchResults.forEach(([url, active]) => results.set(url, active))
RECURSIVE setResults(_, _, _, _)
setResults(results, jobs, probes, ps) ==
    IF ps = {} THEN results
    ELSE LET p == CHOOSE q \in ps : \A r \in ps : q <= r
         IN  setResults(mapSet(results, jobs[p], probes[p].state = "active"),
                        jobs, probes, ps \ {p})

InitProbe ==
    /\ \E n \in 0..MaxJobs, k \in 0..(Len(Behaviours) - 1) :
          loc = [NoLocals EXCEPT
                    !.jobs = [p \in 1..n |-> jobUrlOf(p)],
                    !.responses = [p \in 1..n |-> Behaviours[((p + k) % Len(Behaviours)) + 1]],
                    !.probes = [p \in 1..n |-> NoProbe]]
    /\ pc = "validateJobsActive"
    /\ revisions = <<>>
    /\ docText = <<>>
    /\ args = <<>>
    /\ exitCode = "none"
    /\ calls = <<>>
    /\ file = NoFile
    /\ file0 = NoFile
    /\ revs0 = 0
    /\ queue = NoFile
    /\ queue0 = NoFile

\* validateJobsActive up to its first await, or to its return for no job
validateJobsActive ==
    /\ pc = "validateJobsActive"
    /\ IF 0 < Len(loc.jobs)
       THEN /\ loc' = startBatch([loc EXCEPT !.i = 0, !.results = <<>>])
            /\ pc' = "Promise_all"
       ELSE /\ loc' = [loc EXCEPT !.i = 0, !.results = <<>>]
            /\ pc' = "returned"
    /\ UNCHANGED <<file, remote, args, exitCode, calls, file0, revs0, queue, queue0>>

\* validateJobActive from the answer to its HEAD request on
validateJobActive_head ==
    /\ pc = "Promise_all"
    /\ \E p \in 1..Len(loc.jobs) :
          /\ loc.probes[p].state = "head"
          /\ LET head == loc.responses[p].head
             IN  loc' = [loc EXCEPT !.probes[p] =
                     IF head = "ok"
                     THEN [@ EXCEPT !.state = "get", !.gets = @ + 1]
                     ELSE [@ EXCEPT !.state = "inactive"]]
    /\ UNCHANGED <<file, remote, args, pc, exitCode, calls, file0, revs0, queue, queue0>>

\* validateJobActive from the answer to its GET request on
validateJobActive_get ==
    /\ pc = "Promise_all"
    /\ \E p \in 1..Len(loc.jobs) :
          /\ loc.probes[p].state = "get"
          /\ LET get == loc.responses[p].get
             IN  loc' = [loc EXCEPT !.probes[p].state =
                     IF get = "closed" THEN "inactive" ELSE "active"]
    /\ UNCHANGED <<file, remote, args, pc, exitCode, calls, file0, revs0, queue, queue0>>

\* the return of await Promise.all(promises), and the loop up to the next
\* await or to the return
validateJobsActive_all ==
    /\ pc = "Promise_all"
    /\ \A p \in batchOf(loc.jobs, loc.i) : loc.probes[p].state \in {"active", "inactive"}
    /\ LET results == setResults(loc.results, loc.jobs, loc.probes, batchOf(loc.jobs, loc.i))
           i == loc.i + batchSize
       IN  IF i < Len(loc.jobs)
           THEN /\ loc' = startBatch([loc EXCEPT !.i = i, !.results = results])
                /\ pc' = "Promise_all"
           ELSE /\ loc' = [loc EXCEPT !.i = i, !.results = results]
                /\ pc' = "returned"
    /\ UNCHANGED <<file, remote, args, exitCode, calls, file0, revs0, queue, queue0>>

NextProbe ==
    \/ validateJobsActive
    \/ validateJobActive_head
    \/ validateJobActive_get
    \/ validateJobsActive_all

SpecProbe == InitProbe /\ [][NextProbe]_vars

(***************************************************************************)
(* monitor.ts: the job queue, the extraction of job postings from the      *)
(* markdown of a career page, and the scan of the configured companies.    *)
(***************************************************************************)
\* the first position from `from` on at which s has one of the characters cs;
\* Len(s) + 1 when there is none
RECURSIVE findChar(_, _, _)
findChar(s, cs, from) ==
    IF from > Len(s) THEN Len(s) + 1
    ELSE IF s[from] \in cs THEN from
    ELSE findChar(s, cs, from + 1)

NoMatch == [found |-> FALSE, jobTitle |-> <<>>, url |-> <<>>]

\* /\[([^\]]+)\]\(([^)]+)\)/ tried at position i of line
linkAt(line, i) ==
    LET close == findChar(line, {"]"}, i + 1)
        paren == findChar(line, {")"}, close + 2)
    IN  IF /\ line[i] = "["
           /\ close <= Len(line) /\ close > i + 1
           /\ close + 1 <= Len(line) /\ line[close + 1] = "("
           /\ paren <= Len(line) /\ paren > close + 2
        THEN [found |-> TRUE,
              jobTitle |-> SubSeq(line, i + 1, close - 1),
              url |-> SubSeq(line, close + 2, paren - 1)]
        ELSE NoMatch

\* line.match(/\[([^\]]+)\]\(([^)]+)\)/): the leftmost match
RECURSIVE linkFrom(_, _)
linkFrom(line, i) ==
    IF i > Len(line) THEN NoMatch
    ELSE IF linkAt(line, i).found THEN linkAt(line, i)
    ELSE linkFrom(line, i + 1)

linkMatch(line) == linkFrom(line, 1)

S_http == <<"h", "t", "t", "p", ":", "/", "/">>
S_https == <<"h", "t", "t", "p", "s", ":", "/", "/">>
S_careers == <<"/", "c", "a", "r", "e", "e", "r", "s", "/">>
S_jobs == <<"/", "j", "o", "b", "s", "/">>
S_openings == <<"/", "o", "p", "e", "n", "i", "n", "g", "s", "/">>
S_exampleCom == <<"h", "t", "t", "p", "s", ":", "/", "/", "e", "x", "a", "m", "p", "l", "e", ".", "c", "o", "m">>

\* nextLine.match(/https?:\/\/[^\s)]+/): the leftmost match, as far as it goes
RECURSIVE urlFrom(_, _)
urlFrom(line, i) ==
    IF i > Len(line) THEN NoMatch
    ELSE LET rest == SubSeq(line, i, Len(line))
             scheme == IF startsWith(rest, S_http) THEN Len(S_http)
                       ELSE IF startsWith(rest, S_https) THEN Len(S_https)
                       ELSE 0
             end == findChar(line, {" ", ")"}, i + scheme)
         IN  IF scheme > 0 /\ end > i + scheme
             THEN [found |-> TRUE, jobTitle |-> <<>>, url |-> SubSeq(line, i, end - 1)]
             ELSE urlFrom(line, i + 1)

urlMatch(line) == urlFrom(line, 1)

\* line.replace(/^#+\s*/, '').trim()
RECURSIVE stripHashes(_)
stripHashes(s) == IF s # <<>> /\ Head(s) = "#" THEN stripHashes(Tail(s)) ELSE s

headerTitle(line) == trim(trimStart(stripHashes(line)))

\* new URL(url, 'https://example.com').href, for a path with no dot segment
\* and nothing to encode
resolveUrl(url) ==
    IF startsWith(url, <<"/">>) THEN S_exampleCom \o url ELSE S_exampleCom \o <<"/">> \o url

\* the time of the extraction as an ISO string; nothing reads it
S_now == <<"n", "o", "w">>

\* the inner loop of extractJobPostings: the first of the lines i+1 .. i+4
\* that has a URL with /careers/ or /jobs/ in it
RECURSIVE headerJob(_, _, _, _, _)
headerJob(lines, company, title, j, last) ==
    IF j > last THEN <<>>
    ELSE LET m == urlMatch(lines[j])
         IN  IF m.found /\ (includes(m.url, S_careers) \/ includes(m.url, S_jobs))
             THEN << [company |-> company, url |-> m.url, jobTitle |-> title,
                      discoveredAt |-> S_now] >>
             ELSE headerJob(lines, company, title, j + 1, last)

\* the jobs that line i of the markdown adds
lineJobs(lines, company, i) ==
    LET line == trim(lines[i])
        m == linkMatch(line)
        byLink ==
            IF m.found /\ (includes(m.url, S_careers) \/ includes(m.url, S_jobs)
                              \/ includes(m.url, S_openings))
            THEN << [company |-> company,
                     url |-> IF startsWith(m.url, <<"h", "t", "t", "p">>) THEN m.url
                             ELSE resolveUrl(m.url),
                     jobTitle |-> m.jobTitle,
                     discoveredAt |-> S_now] >>
            ELSE <<>>
        title == headerTitle(line)
        last == IF i + 4 < Len(lines) THEN i + 4 ELSE Len(lines)
        byHeader ==
            IF startsWith(line, <<"#">>) /\ Len(line) > 3 /\ Len(title) > 5 /\ Len(title) < 100
            THEN headerJob(lines, company, title, i + 1, last)
            ELSE <<>>
    IN  byLink \o byHeader

\* extractJobPostings on the lines of the markdown
RECURSIVE extractFrom(_, _, _)
extractFrom(lines, company, i) ==
    IF i > Len(lines) THEN <<>>
    ELSE lineJobs(lines, company, i) \o extractFrom(lines, company, i + 1)

extractJobPostings(lines, company) == extractFrom(lines, company, 1)

\* filterJobs: the roles of the company's filters, when it has any
filterJobs(jobs, company) ==
    IF company.roles = <<>> THEN jobs
    ELSE SelectSeq(jobs,
                   LAMBDA job : \E r \in 1..Len(company.roles) :
                                   includes(toLowerCase(job.jobTitle),
                                            toLowerCase(company.roles[r])))

\* the merge of monitorCompanies: what is written, given the queue read and
\* the jobs of this scan
newJobs(existingQueue, allJobs) ==
    SelectSeq(allJobs,
              LAMBDA j : ~\E k \in 1..Len(existingQueue) : existingQueue[k].url = j.url)

updatedQueue(existingQueue, allJobs) == existingQueue \o newJobs(existingQueue, allJobs)

(***************************************************************************)
(* Inputs of a scan: companies.json and the career pages.                  *)
(***************************************************************************)
\* the most companies of companies.json
MaxCompanies == 2

S_apply == <<"A", "p", "p", "l", "y">>
S_engineer == <<"E", "n", "g", "i", "n", "e", "e", "r">>

Companies ==
    { [name |-> S_acme, roles |-> <<>>],
      [name |-> <<"B">>, roles |-> << <<"e", "n", "g">> >>] }

CompaniesConfigs == UNION { [1..n -> Companies] : n \in 0..MaxCompanies }

\* a header and below it the link to the posting
Page_header ==
    << <<"#", "#", " ", "S", "e", "n", "i", "o", "r", " ", "E", "n", "g", "i", "n", "e", "e", "r">>,
       <<"[", "A", "p", "p", "l", "y", "]", "(", "h", "t", "t", "p", ":", "/", "/", "a", ".", "i", "o", "/", "j", "o", "b", "s", "/", "1", ")">> >>
\* two postings, each a link
Page_links ==
    << <<"[", "E", "n", "g", "i", "n", "e", "e", "r", "]", "(", "h", "t", "t", "p", ":", "/", "/", "a", ".", "i", "o", "/", "j", "o", "b", "s", "/", "1", ")">>,
       <<"-", " ", "[", "D", "a", "t", "a", " ", "E", "n", "g", "i", "n", "e", "e", "r", "]", "(", "/", "j", "o", "b", "s", "/", "2", ")">> >>
\* no posting
Page_about ==
    << <<"#", " ", "A", "b", "o", "u", "t">>,
       <<"[", "T", "e", "a", "m", "]", "(", "h", "t", "t", "p", ":", "/", "/", "a", ".", "i", "o", "/", "t", "e", "a", "m", ")">> >>

Pages == {Page_header, Page_links, Page_about}

(***************************************************************************)
(* monitor without --process: monitorCompanies, run again and again.       *)
(***************************************************************************)
MonitorArgs == { <<W_monitor>> }

mainMonitor == run(MonitorArgs)

\* handleMonitor without --process, and monitorCompanies up to the scrape of
\* the first career page
handleMonitor_scan ==
    /\ pc = "handleMonitor"
    /\ ~\E a \in 1..Len(args) : args[a] = F_process
    /\ \E companies \in CompaniesConfigs :
          IF Len(companies) = 0
          THEN /\ loc' = [loc EXCEPT !.companies = companies]
               /\ exit("0")
          ELSE /\ loc' = [loc EXCEPT !.companies = companies, !.c = 1, !.allJobs = <<>>]
               /\ pc' = "discoverJobs"
               /\ UNCHANGED exitCode
    /\ UNCHANGED <<file, remote, args, calls, file0, revs0, queue, queue0>>

\* discoverJobs from the answer of the scrape on: the jobs of the page, or
\* none when the scrape failed; then the delay
monitorCompanies_discoverJobs ==
    /\ pc = "discoverJobs"
    /\ LET company == loc.companies[loc.c]
       IN  \/ \E markdown \in Pages :
                loc' = [loc EXCEPT !.allJobs =
                           @ \o filterJobs(extractJobPostings(markdown, company.name), company)]
           \/ loc' = loc
    /\ pc' = "delay"
    /\ UNCHANGED <<file, remote, args, exitCode, calls, file0, revs0, queue, queue0>>

\* the end of the delay: the next company, or the merge with the queue
monitorCompanies_delay ==
    /\ pc = "delay"
    /\ IF loc.c < Len(loc.companies)
       THEN /\ loc' = [loc EXCEPT !.c = @ + 1]
            /\ pc' = "discoverJobs"
            /\ UNCHANGED <<exitCode, queue>>
       ELSE LET existingQueue == readJobQueue(queue)
                updated == updatedQueue(existingQueue, loc.allJobs)
            IN  /\ loc' = loc
                /\ IF Len(newJobs(existingQueue, loc.allJobs)) > 0
                   THEN \/ /\ queue' = JobQueueFile(updated)
                           /\ exit("0")
                        \/ /\ \E k \in 0..(Len(updated) - 1) :
                                 queue' = PartialJobQueueFile(SubSeq(updated, 1, k))
                           /\ exit("1")
                   ELSE /\ UNCHANGED queue
                        /\ exit("0")
    /\ UNCHANGED <<file, remote, args, calls, file0, revs0, queue0>>

NextScan ==
    \/ mainMonitor
    \/ handleMonitor_scan
    \/ monitorCompanies_discoverJobs
    \/ monitorCompanies_delay
    \/ Return

SpecScan == Init /\ [][NextScan]_vars

(***************************************************************************)
(* handleBatch and handleMonitor --process: one update cycle for each URL. *)
(***************************************************************************)
\* the most URLs of a batch and the most jobs of the queue of SpecBatch
MaxUrls == 2

S_httpWord == <<"h", "t", "t", "p">>

\* the loop of handleBatch over the arguments after --urls
RECURSIVE collectUrls(_, _)
collectUrls(argv, i) ==
    IF i > Len(argv) \/ startsWith(argv[i], <<"-", "-">>) THEN <<>>
    ELSE (IF argv[i] # <<>> /\ startsWith(argv[i], S_httpWord) THEN <<argv[i]>> ELSE <<>>)
             \o collectUrls(argv, i + 1)

\* the lines of the file of --file, trimmed and filtered
fileUrls(lines) ==
    SelectSeq([k \in 1..Len(lines) |-> trim(lines[k])],
              LAMBDA line : line # <<>> /\ ~startsWith(line, <<"#">>)
                               /\ startsWith(line, S_httpWord))

\* urls of handleBatch; usage when neither flag is given
batchUrls(argv, fileContent) ==
    LET urlsIndex == indexOf(argv, F_urls)
        fileIndex == indexOf(argv, F_file)
    IN  IF fileIndex # -1 /\ argAt(argv, fileIndex + 1) # Undefined
        THEN [usage |-> FALSE, urls |-> fileUrls(fileContent)]
        ELSE IF urlsIndex # -1
        THEN [usage |-> FALSE, urls |-> collectUrls(argv, urlsIndex + 2)]
        ELSE [usage |-> TRUE, urls |-> <<>>]

\* what the file of --file may hold
UrlFiles ==
    { << <<"#", " ", "j", "o", "b", "s">>, <<" ", "h", "t", "t", "p", ":", "/", "/", "a", ".", "i", "o", "/", "j", "o", "b", "s", "/", "1", " ">>, <<>>, <<"f", "t", "p", ":", "/", "/", "a", ".", "i", "o">> >> }

UrlLists == { [k \in 1..n |-> jobUrlOf(k)] : n \in 0..MaxUrls }

BatchArgs ==
    { <<W_batch>>, <<W_batch, F_file, <<"f">> >> }
        \cup { <<W_batch, F_urls>> \o urls \o flags :
                  urls \in UrlLists, flags \in { <<>>, <<F_dryRun>> } }

ProcessArgs == { <<W_monitor, F_process>>, <<W_monitor, F_process, F_dryRun>> }

\* the n-th entry of the stored queue
queueEntry(n) ==
    [company |-> S_acme, url |-> jobUrlOf(n), jobTitle |-> S_engineer, discoveredAt |-> S_now]

InitBatch ==
    /\ \E n \in 0..MaxUrls : queue = JobQueueFile([k \in 1..n |-> queueEntry(k)])
    /\ queue0 = queue
    /\ file = NoFile
    /\ revisions = <<newRevision(<<>>, BaselineId, InitialText)>>
    /\ docText = InitialText
    /\ pc = "idle"
    /\ args = <<>>
    /\ loc = NoLocals
    /\ exitCode = "none"
    /\ calls = <<>>
    /\ file0 = NoFile
    /\ revs0 = 0

mainBatch == run(BatchArgs \cup ProcessArgs)

\* handleBatch up to the fetch of the first URL
handleBatch ==
    /\ pc = "handleBatch"
    /\ \/ \E fileContent \in UrlFiles :
            LET b == batchUrls(args, fileContent)
            IN  IF b.usage \/ Len(b.urls) = 0
                THEN /\ loc' = [loc EXCEPT !.urls = b.urls]
                     /\ exit("1")
                ELSE /\ loc' = [loc EXCEPT !.urls = b.urls, !.results = <<>>, !.i = 0]
                     /\ pc' = "fetchJobDescriptionFromUrl"
                     /\ UNCHANGED exitCode
       \/ /\ indexOf(args, F_file) # -1 /\ argAt(args, indexOf(args, F_file) + 1) # Undefined
          /\ loc' = loc
          /\ exit("1")
    /\ UNCHANGED <<file, remote, args, calls, file0, revs0, queue, queue0>>

\* handleMonitor with --process up to the fetch of the first URL
handleMonitor_process ==
    /\ pc = "handleMonitor"
    /\ \E a \in 1..Len(args) : args[a] = F_process
    /\ LET jobQueue == readJobQueue(queue)
       IN  IF Len(jobQueue) = 0
           THEN /\ loc' = [loc EXCEPT !.queue = jobQueue]
                /\ exit("0")
           ELSE /\ loc' = [loc EXCEPT !.queue = jobQueue,
                                      !.urls = [k \in 1..Len(jobQueue) |-> jobQueue[k].url],
                                      !.results = <<>>, !.i = 0]
                /\ pc' = "fetchJobDescriptionFromUrl"
                /\ UNCHANGED exitCode
    /\ UNCHANGED <<file, remote, args, calls, file0, revs0, queue, queue0>>

\* the body of the loop of handleBatch from the answer of the scrape to the
\* first await of performUpdate, or to the catch
handleBatch_fetch ==
    /\ pc = "fetchJobDescriptionFromUrl"
    /\ args[1] = W_batch
    /\ calls' = Append(calls, "fetchJobDescriptionFromUrl")
    /\ LET url == loc.urls[loc.i + 1]
           metadata == [getMetadata(args) EXCEPT !.jobUrl = url]
       IN  \/ /\ loc' = [cycleLocals(loc, metadata) EXCEPT !.i = afterFetch(loc).i]
              /\ pc' = afterFetch(loc).pc
              /\ UNCHANGED <<exitCode, queue>>
           \/ finish(FALSE, loc)
    /\ UNCHANGED <<file, remote, args, file0, revs0, queue0>>

\* the same of the loop of handleMonitor
handleMonitor_fetch ==
    /\ pc = "fetchJobDescriptionFromUrl"
    /\ args[1] = W_monitor
    /\ calls' = Append(calls, "fetchJobDescriptionFromUrl")
    /\ LET url == loc.urls[loc.i + 1]
           job == loc.queue[loc.i + 1]
           metadata == [company |-> job.company, jobTitle |-> job.jobTitle, jobUrl |-> url]
       IN  \/ /\ loc' = [cycleLocals(loc, metadata) EXCEPT !.i = afterFetch(loc).i]
              /\ pc' = afterFetch(loc).pc
              /\ UNCHANGED <<exitCode, queue>>
           \/ finish(FALSE, loc)
    /\ UNCHANGED <<file, remote, args, file0, revs0, queue0>>

NextBatch ==
    \/ mainBatch
    \/ handleBatch
    \/ handleMonitor_process
    \/ handleBatch_fetch
    \/ handleMonitor_fetch
    \/ performUpdate_getResumeText
    \/ performUpdate_getResumeReplacements
    \/ getAlignmentSuggestions_delay
    \/ performUpdate_applyWordReplacements
    \/ performUpdate_getRevisions
    \/ writeVersionLog_open
    \/ writeVersionLog_write

SpecBatch == InitBatch /\ [][NextBatch]_vars

(***************************************************************************)
(* Vocabulary of the claims.                                               *)
(***************************************************************************)
running == pc # "idle"
finished == pc = "done"
command == IF args = <<>> THEN Undefined ELSE args[1]
dryRunRequested == \E i \in 1..Len(args) : args[i] = F_dryRun
updateCycle == running /\ command = W_update /\ ~dryRunRequested
called(f) == \E i \in 1..Len(calls) : calls[i] = f

log0 == readVersionLog(file0)
logNow == readVersionLog(file)

\* the log read now is the log read at the start plus one entry at the end
appendedOne ==
    /\ Len(logNow) = Len(log0) + 1
    /\ SubSeq(logNow, 1, Len(log0)) = log0

lastEntry == logNow[Len(logNow)]

\* the ids of the revisions the document service created during this run
createdIds == {revisions[i].id : i \in (revs0 + 1)..Len(revisions)}

\* a string of decimal digits
isNumeral(tok) == tok # <<>> /\ \A i \in 1..Len(tok) : isDigit(tok[i])

\* tok is the 0-based index of an entry of es
isIndexOf(tok, es) == isNumeral(tok) /\ digitsValue(tok, 0) < Len(es)

\* tok is the revisionId of an entry of es
isIdOf(tok, es) == \E i \in 1..Len(es) : es[i].revisionId = tok

(***************************************************************************)
(* C1.  Original statement: at the end of a non-dry-run update cycle, one  *)
(* entry has been appended if applyWordReplacements returned, and the log  *)
(* is as it was if it did not.                                             *)
(***************************************************************************)
C1_AppendIffApplied ==
    (finished /\ updateCycle) =>
        IF loc.applied THEN appendedOne ELSE file = file0

(***************************************************************************)
(* C1, amended.  At the end of a non-dry-run update cycle: exactly one     *)
(* entry has been appended if and only if applyWordReplacements returned   *)
(* and the revision listing and the write of the log after it completed    *)
(* (the cycle ends with status 0); if applyWordReplacements did not        *)
(* return, the stored log is untouched.                                    *)
(***************************************************************************)
C1_AppendIffCycleCompleted ==
    (finished /\ updateCycle) =>
        /\ appendedOne <=> exitCode = "0"
        /\ exitCode = "0" => (loc.applied /\ called("getRevisions") /\ ~lastEntry.isRevert)
        /\ ~loc.applied => file = file0

C1_Witness ==
    /\ finished /\ updateCycle
    /\ exitCode = "0"
    /\ Len(log0) >= 1
    /\ appendedOne

(***************************************************************************)
(* C2.  The entry an update cycle appends carries the id of a revision the *)
(* document service created during that cycle.                             *)
(***************************************************************************)
C2_LoggedRevisionIsOfThisCycle ==
    (finished /\ updateCycle /\ exitCode = "0") =>
        lastEntry.revisionId \in createdIds

(***************************************************************************)
(* C3.  A run of update with --dry-run never calls applyWordReplacements   *)
(* or updateResumeText, leaves the stored log and the document as they     *)
(* were, and when it ends well has called getResumeText and                *)
(* getResumeReplacements and nothing else.                                 *)
(***************************************************************************)
C3_DryRunMutatesNothing ==
    (running /\ command = W_update /\ dryRunRequested) =>
        /\ ~called("applyWordReplacements")
        /\ ~called("updateResumeText")
        /\ file = file0
        /\ Len(revisions) = revs0
        /\ (finished /\ exitCode = "0") => calls = <<"getResumeText", "getResumeReplacements">>

C3_Witness ==
    /\ finished /\ command = W_update /\ dryRunRequested
    /\ exitCode = "0"
    /\ loc.result.replacements # <<>>
    /\ Len(log0) >= 1

(***************************************************************************)
(* C4.  A revert that ends well leaves every entry the log had where it    *)
(* was and as it was, and adds one entry with isRevert = TRUE at the end.  *)
(***************************************************************************)
C4_RevertAppendsOne ==
    (finished /\ command = W_revert /\ exitCode = "0") =>
        /\ loc.target # 0
        /\ appendedOne
        /\ lastEntry.isRevert

C4_Witness ==
    /\ finished /\ command = W_revert /\ exitCode = "0"
    /\ Len(log0) >= 2
    /\ appendedOne

(***************************************************************************)
(* C5.  In a run of revert <token> or tag <token> ..., the selector that   *)
(* is resolved against the log is <token>, the argument after the command  *)
(* word: revert 0 on a log of 3 entries selects entry 0, and               *)
(* tag 1 --company Acme selects entry 1.                                   *)
(***************************************************************************)
selectionDone ==
    /\ running
    /\ \/ command = W_revert /\ pc # "handleRevert"
       \/ command = W_tag /\ pc # "handleTag" /\ Len(args) > 2

C5_SelectorIsTheToken ==
    selectionDone =>
        /\ loc.selector = args[2]
        /\ (args = <<W_revert, <<"0">> >> /\ Len(log0) = 3) => loc.target = 1
        /\ (args = <<W_tag, <<"1">>, F_company, S_acme>> /\ Len(log0) >= 2) => loc.target = 2

(***************************************************************************)
(* C6.  The entry a revert appends has the id of the last revision of the  *)
(* sequence fetched after the overwrite, a revision created by this run    *)
(* and other than the target's, and its changes are one string that ends   *)
(* with the target's revisionId.                                           *)
(***************************************************************************)
C6_RevertEntryNamesNewRevision ==
    (finished /\ command = W_revert /\ exitCode = "0") =>
        LET targetEntry == loc.localEntries[loc.target]
        IN  /\ lastEntry.revisionId = revisions[Len(revisions)].id
            /\ lastEntry.revisionId = loc.latestRevision.id
            /\ lastEntry.revisionId \in createdIds
            /\ lastEntry.revisionId # targetEntry.revisionId
            /\ Len(lastEntry.changes) = 1
            /\ lastEntry.changes[1] = S_revertedTo \o targetEntry.revisionId

C6_Witness ==
    /\ finished /\ command = W_revert /\ exitCode = "0"
    /\ appendedOne
    /\ lastEntry.isRevert
    /\ loc.target # 0

ambiguous(tok, es) ==
    /\ isIndexOf(tok, es)
    /\ \E i \in 1..Len(es) : es[i].revisionId = tok /\ i # digitsValue(tok, 0) + 1

C9_FallbackIsWarned ==
    loc.fellBack => loc.warned

(***************************************************************************)
(* C10.  When a process that appends or tags has ended, however it ended,  *)
(* the stored file holds the whole sequence it held before or the whole    *)
(* new sequence.                                                           *)
(***************************************************************************)
C10_WriteIsAtomic ==
    (finished /\ command \in {W_update, W_revert, W_tag}) =>
        \/ file = file0
        \/ file = WholeFile(loc.data)


(***************************************************************************)
(* C11.  Whatever the stored file and whatever the entry, once             *)
(* appendVersionLog has returned, readVersionLog returns what it returned  *)
(* just before the append, every entry where it was, with the new entry    *)
(* added as the last element.                                              *)
(***************************************************************************)
C11_AppendThenRead ==
    (finished /\ exitCode = "0") =>
        /\ readVersionLog(file) = Append(readVersionLog(file0), loc.logEntry)
        /\ readVersionLog(file0) = loc.localEntries

C11_Witness ==
    /\ finished /\ exitCode = "0"
    /\ Len(readVersionLog(file0)) = MaxStored
    /\ loc.logEntry.company = Undefined
    /\ readVersionLog(file0)[1].company # Undefined
    /\ readVersionLog(file)[Len(readVersionLog(file))] = loc.logEntry


(***************************************************************************)
(* C12.  When a run of tag has resolved entry k and rewritten the log, the *)
(* log has the length it had, every entry other than k is as it was and    *)
(* where it was, and entry k differs from what it was at most in those of  *)
(* company, jobTitle, jobUrl for which the command line gives a value;     *)
(* each of these has the value given.                                      *)
(***************************************************************************)
\* the value the command line gives for a flag, undefined when it gives none
supplied(flag) ==
    IF \E i \in 1..(Len(args) - 1) : args[i] = flag
    THEN args[(CHOOSE i \in 1..(Len(args) - 1) : args[i] = flag) + 1]
    ELSE Undefined

suppliedKeys ==
    {key \in OptionalKeys :
        supplied(CASE key = "company" -> F_company
                   [] key = "jobTitle" -> F_jobTitle
                   [] key = "jobUrl" -> F_url) # Undefined}

C12_TagPatchesOnlySupplied ==
    (finished /\ command = W_tag /\ exitCode = "0") =>
        /\ loc.target \in 1..Len(log0)
        /\ Len(logNow) = Len(log0)
        /\ \A i \in 1..Len(log0) : i # loc.target => logNow[i] = log0[i]
        /\ \A key \in EntryKeys :
              logNow[loc.target][key] # log0[loc.target][key] => key \in suppliedKeys
        /\ "company" \in suppliedKeys => logNow[loc.target].company = supplied(F_company)
        /\ "jobTitle" \in suppliedKeys => logNow[loc.target].jobTitle = supplied(F_jobTitle)
        /\ "jobUrl" \in suppliedKeys => logNow[loc.target].jobUrl = supplied(F_url)

C12_Witness ==
    /\ finished /\ command = W_tag /\ exitCode = "0"
    /\ Len(log0) >= 2
    /\ log0[loc.target].company # Undefined
    /\ suppliedKeys = {"jobTitle", "jobUrl"}
    /\ logNow[loc.target].company = log0[loc.target].company
    /\ logNow[loc.target].jobUrl # log0[loc.target].jobUrl


(***************************************************************************)
(* C13.  When list has reconciled, whatever its filters: extra holds the   *)
(* revisionIds of the entries of the whole log that no remote revision     *)
(* has, and missing holds the ids of the remote revisions that no entry of *)
(* the whole log has, the oldest remote revision left out.  For a log of   *)
(* r1, r2 and remote revisions r0, r1, r2, r3, missing is r3 and extra is  *)
(* empty.                                                                  *)
(***************************************************************************)
localIds == {log0[i].revisionId : i \in 1..Len(log0)}
remoteIds == {revisions[j].id : j \in 1..Len(revisions)}
oldestRemote == IF revisions = <<>> THEN {} ELSE {revisions[1].id}
elements(q) == {q[i] : i \in 1..Len(q)}

C13_Reconciliation ==
    (finished /\ exitCode = "0") =>
        /\ elements(loc.extraRevisions) = localIds \ remoteIds
        /\ elements(loc.missingRevisions) = (remoteIds \ localIds) \ oldestRemote
        /\ (localIds = {R1, R2}
               /\ [j \in 1..Len(revisions) |-> revisions[j].id] = <<R0, R1, R2, R3>>) =>
              (loc.missingRevisions = <<R3>> /\ loc.extraRevisions = <<>>)

C13_Witness ==
    /\ finished /\ exitCode = "0"
    /\ localIds = {R1, R2}
    /\ [j \in 1..Len(revisions) |-> revisions[j].id] = <<R0, R1, R2, R3>>
    /\ companyFilter(args) # Undefined
    /\ Len(loc.tableData) = 1
    /\ loc.missingRevisions = <<R3>>
    /\ loc.extraRevisions = <<>>


(***************************************************************************)
(* C14.  A run of list or search leaves the stored log, the document and   *)
(* its revisions as they were and calls nothing of the document service    *)
(* but getRevisions; when list has warned of a desync, it has gone on to   *)
(* display the table of the entries and ends with status 0.                *)
(***************************************************************************)
C14_ListAndSearchReadOnly ==
    (running /\ command \in {W_list, W_search}) =>
        /\ file = file0
        /\ Len(revisions) = revs0
        /\ docText = revisions[Len(revisions)].content
        /\ \A i \in 1..Len(calls) : calls[i] = "getRevisions"
        /\ command = W_search => calls = <<>>
        /\ loc.desyncWarned =>
              /\ loc.tableShown
              /\ loc.tableData = listTable(filteredEntries(log0, args), revisions)
              /\ exitCode = "0"

C14_Witness ==
    /\ finished /\ command = W_list
    /\ loc.desyncWarned
    /\ loc.missingRevisions # <<>>
    /\ loc.tableShown
    /\ Len(loc.tableData) >= 1

C14_WitnessSearch ==
    /\ finished /\ command = W_search /\ exitCode = "0"
    /\ Len(loc.tableData) >= 1
    /\ Len(loc.tableData) < Len(log0)


(***************************************************************************)
(* C15.  For every replacement the filter keeps against text T: original   *)
(* is a contiguous substring of T, letter case included; original and      *)
(* replacement differ once the white space at their ends is removed; and   *)
(* the number of words (maximal runs of characters that are not white      *)
(* space) of original and of replacement differ by at most 5.              *)
(***************************************************************************)
candidates == loc.suggestions.replacements
accepted == loc.result.replacements

\* T = p \o s \o q for some p and q
isSubstring(s, T) ==
    \E a \in 0..Len(T) : \E b \in a..Len(T) : SubSeq(T, a + 1, b) = s

\* s without the blanks at its two ends
stripped(s) ==
    LET body == {i \in 1..Len(s) : s[i] # " "}
    IN  IF body = {} THEN <<>>
        ELSE SubSeq(s, CHOOSE i \in body : \A j \in body : i <= j,
                       CHOOSE i \in body : \A j \in body : j <= i)

\* the number of maximal runs of characters other than white space
tokenCount(s) ==
    Cardinality({i \in 1..Len(s) : s[i] # " " /\ (i = 1 \/ s[i - 1] = " ")})

C15_AcceptedAreFaithful ==
    pc # "validate" =>
        \A i \in 1..Len(accepted) :
            /\ isSubstring(accepted[i].original, docText)
            /\ stripped(accepted[i].original) # stripped(accepted[i].replacement)
            /\ abs(tokenCount(accepted[i].original) - tokenCount(accepted[i].replacement)) <= 5

(***************************************************************************)
(* C16.  What the filter keeps is the candidate list without the           *)
(* candidates it rejects, in the order of the list: a candidate is kept    *)
(* exactly when the filter keeps it from the list that holds it alone      *)
(* against the same text, whatever the other candidates are, also when     *)
(* their originals overlap or repeat; the candidate whose original is the  *)
(* whole text "Built two full-stack applications." and whose replacement   *)
(* has 7 words is kept.                                                    *)
(***************************************************************************)
keptAlone(r) == getResumeReplacements(docText, [replacements |-> <<r>>, summary |-> <<>>]).replacements = <<r>>

C17_FilterIsIdempotent ==
    pc = "revalidated" => loc.again = accepted

C17_Witness ==
    /\ pc = "revalidated"
    /\ Len(candidates) = MaxCands
    /\ Len(accepted) = Len(candidates)
    /\ loc.again = accepted

(***************************************************************************)
(* C18.  The filter prints one line for every candidate it rejects: the    *)
(* lines are as many as the rejected candidates.                           *)
(***************************************************************************)
C18_EveryRejectionIsRecorded ==
    pc # "validate" => Len(loc.skipped) = Len(candidates) - Len(accepted)


(***************************************************************************)
(* C19.  In an update cycle without --dry-run whose candidates are all     *)
(* rejected, nothing is applied: the document and its revisions stay as    *)
(* they were.  The apply call returns and the cycle goes on to list the    *)
(* revisions; when it ends with status 0 it has appended one entry, not a  *)
(* revert, whose changes are the summary lines of the response and nothing *)
(* from the rejected candidates.                                           *)
(***************************************************************************)
zeroAccepted ==
    /\ updateCycle
    /\ loc.suggestions # NoSuggestions
    /\ loc.result.replacements = <<>>

C19_ZeroAcceptedStillLogs ==
    zeroAccepted =>
        /\ Len(revisions) = revs0
        /\ docText = loc.currentText
        /\ pc = "getRevisions" => (loc.applied /\ exitCode = "none")
        /\ (finished /\ exitCode = "0") =>
              /\ loc.applied
              /\ appendedOne
              /\ ~lastEntry.isRevert
              /\ lastEntry.changes = loc.suggestions.summary

C19_Witness ==
    /\ zeroAccepted
    /\ finished /\ exitCode = "0"
    /\ Len(log0) >= 1
    /\ appendedOne
    /\ called("applyWordReplacements")

(***************************************************************************)
(* C20.  One call for suggestions sends at most 3 requests; a request that *)
(* is followed by another ended with a failure to decode the response      *)
(* (raised after the response came, not by the request); a request the     *)
(* service answered with an error status is the last one, and the run has  *)
(* ended with status 1 on it.                                              *)
(***************************************************************************)
\* the error was raised while reading a response that had come
decodeFailure(error) == ~error.isAxiosError

C20_BoundedRetry ==
    /\ loc.requests <= 3
    /\ Len(loc.errors) <= loc.requests
    /\ \A i \in 1..Len(loc.errors) :
          /\ i < loc.requests => decodeFailure(loc.errors[i])
          /\ pc = "retryDelay" => decodeFailure(loc.errors[i])
          /\ loc.errors[i].response =>
                /\ i = loc.requests
                /\ finished
                /\ exitCode = "1"

C20_Witness ==
    /\ finished /\ exitCode = "0"
    /\ loc.requests = 3
    /\ Len(loc.errors) = 2
    /\ loc.suggestions # NoSuggestions

C20_WitnessErrorStatus ==
    /\ finished /\ exitCode = "1"
    /\ loc.requests = 2
    /\ loc.errors[2].response

(***************************************************************************)
(* C26.  The Index that list prints next to an entry is the 0-based index  *)
(* by which revert, export and tag select that same entry, also when list  *)
(* is run with a --company or --job filter: typing the printed Index as    *)
(* the selector selects the entry of that row.                             *)
(***************************************************************************)
\* String(n) for n < 10
numeral(n) == <<Digits[n + 1]>>

\* the positions in the whole log of the entries list shows, in order
shownPositions ==
    SelectSeq([p \in 1..Len(log0) |-> p],
              LAMBDA p : filteredEntries(<<log0[p]>>, args) # <<>>)

C26_ListIndexSelectsEntry ==
    (finished /\ command = W_list /\ loc.tableShown) =>
        \A i \in 1..Len(loc.tableData) :
            selectTarget(log0, numeral(loc.tableData[i].Index)) = shownPositions[i]

(***************************************************************************)
(* C27.  A revert run passes through SELECT_TARGET, FETCH_SNAPSHOT,        *)
(* OVERWRITE, APPEND_LOG, DONE in that order and never skips or repeats a  *)
(* step; a failure in any step ends the run with no later step executed:   *)
(* the document is overwritten only in OVERWRITE, entered only from a      *)
(* snapshot fetch that returned for a selected target, and the log is      *)
(* written only in APPEND_LOG, entered only from an overwrite that added   *)
(* a revision and continued only when the revision listing returned.       *)
(***************************************************************************)
\* the step of the revert run a position of the process belongs to
revertStep(p) ==
    CASE p = "handleRevert" -> 1
      [] p \in {"getRevisionContent", "getRevisionContent_fallback"} -> 2
      [] p = "updateResumeText" -> 3
      [] p \in {"handleRevert_getRevisions", "writeVersionLog", "writeFile"} -> 4
      [] p = "done" -> 5
      [] OTHER -> 0

failed == finished /\ exitCode # "0"

C27_RevertStepsInOrder ==
    [][(running /\ command = W_revert /\ ~finished) =>
          /\ pc' # pc
          /\ revertStep(pc) \in 1..4
          /\ \/ revertStep(pc') \in {revertStep(pc), revertStep(pc) + 1}
             \/ failed'
          /\ (finished' /\ ~failed') => pc = "writeFile"
          /\ revertStep(pc') = 3 =>
                (revertStep(pc) = 2 /\ loc'.target # 0 /\ called("getRevisionContent")')
          /\ (pc' = "handleRevert_getRevisions") =>
                (pc = "updateResumeText" /\ Len(revisions') = revs0 + 1)
          /\ (pc' = "writeVersionLog") =>
                (pc = "handleRevert_getRevisions" /\ called("getRevisions")')
          /\ (docText' # docText \/ revisions' # revisions) => pc = "updateResumeText"
          /\ file' # file => revertStep(pc) = 4
          /\ revertStep(pc) = 4 => Len(revisions) = revs0 + 1
    ]_vars

C27_Witness ==
    /\ finished /\ command = W_revert /\ exitCode = "0"
    /\ calls = <<"getRevisionContent", "updateResumeText", "getRevisions">>
    /\ Len(logNow) = Len(log0) + 1

(***************************************************************************)
(* C28.  Over any sequence of update, revert, tag, list, search and export *)
(* operations run one at a time, the stored version log is append-only:    *)
(* when an operation has ended, the log is at least as long as it was when *)
(* the operation started, and the revisionId, timestamp, changes and       *)
(* isRevert of every entry it had then are as they were; also when the     *)
(* stored file was unreadable at the time of an operation.                 *)
(***************************************************************************)
\* the fields of an entry that are never to change
core(e) ==
    [revisionId |-> e.revisionId, timestamp |-> e.timestamp,
     changes |-> e.changes, isRevert |-> e.isRevert]

C28_LogIsAppendOnly ==
    finished =>
        /\ Len(logNow) >= Len(log0)
        /\ \A i \in 1..Len(log0) : core(logNow[i]) = core(log0[i])

(***************************************************************************)
(* C29.  updateResumeText, the overwrite of the whole body, is called only *)
(* in a run of revert, and applyWordReplacements only in an update cycle;  *)
(* list, search, tag and export call neither.                              *)
(***************************************************************************)
C29_OverwriteOnlyInRevert ==
    /\ called("updateResumeText") => (running /\ command = W_revert)
    /\ called("applyWordReplacements") => updateCycle
    /\ (running /\ command \in {W_list, W_search, W_tag, W_export}) =>
          (~called("updateResumeText") /\ ~called("applyWordReplacements"))

C29_Witness ==
    /\ finished /\ command = W_export /\ exitCode = "0"
    /\ called("exportRevision")
    /\ Len(log0) >= 2
    /\ \E i \in 1..Len(log0) : log0[i].isRevert

(***************************************************************************)
(* C25.  A liveness probe whose request times out yields a negative        *)
(* result for that URL: the request is not sent again, no error reaches    *)
(* the caller of validateJobsActive, and the URL is never reported active  *)
(* after a request to it has timed out.                                    *)
(***************************************************************************)
\* a request of the probe of job p has timed out
timedOut(p) ==
    \/ /\ loc.responses[p].head = "timeout"
       /\ loc.probes[p].heads >= 1 /\ loc.probes[p].state # "head"
    \/ /\ loc.responses[p].head = "ok" /\ loc.responses[p].get = "timeout"
       /\ loc.probes[p].gets >= 1 /\ loc.probes[p].state # "get"

returned == pc = "returned"

C25_TimeoutIsInactive ==
    /\ exitCode = "none"
    /\ \A p \in 1..Len(loc.jobs) :
          timedOut(p) =>
              /\ loc.probes[p].state = "inactive"
              /\ loc.probes[p].heads <= 1 /\ loc.probes[p].gets <= 1
              /\ returned => ~mapGet(loc.results, loc.jobs[p])

(***************************************************************************)
(* C30.  During validateJobsActive over any number of job URLs, at most 10 *)
(* probes are in flight at any time, every URL is probed exactly once, and *)
(* the returned map has a boolean result for every input URL.              *)
(***************************************************************************)
inFlight == {p \in 1..Len(loc.jobs) : loc.probes[p].state \in {"head", "get"}}

C30_ProbesAreCapped ==
    /\ Cardinality(inFlight) <= 10
    /\ \A p \in 1..Len(loc.jobs) : loc.probes[p].calls <= 1
    /\ returned =>
          /\ Len(loc.results) = Len(loc.jobs)
          /\ \A p \in 1..Len(loc.jobs) :
                /\ loc.probes[p].calls = 1
                /\ mapHas(loc.results, loc.jobs[p])
                /\ mapGet(loc.results, loc.jobs[p]) \in BOOLEAN
                /\ mapGet(loc.results, loc.jobs[p]) = (loc.probes[p].state = "active")

C30_Witness ==
    /\ returned
    /\ Len(loc.jobs) > 10
    /\ \E p \in 1..Len(loc.jobs) : mapGet(loc.results, loc.jobs[p])
    /\ \E p \in 1..Len(loc.jobs) : ~mapGet(loc.results, loc.jobs[p])

(***************************************************************************)
(* C23.  Starting from a job queue whose entries have pairwise distinct    *)
(* urls, after any sequence of monitor scans the persisted queue still has *)
(* pairwise distinct urls, and every entry that was in the queue before a  *)
(* scan is still in it, at the same position, after the scan.              *)
(***************************************************************************)
scan == running /\ command = W_monitor /\ ~\E a \in 1..Len(args) : args[a] = F_process

distinctUrls(es) == \A a, b \in 1..Len(es) : a # b => es[a].url # es[b].url

C23_QueueKeepsDistinctUrls ==
    /\ distinctUrls(readJobQueue(queue))
    /\ (scan /\ finished) =>
          /\ Len(readJobQueue(queue)) >= Len(readJobQueue(queue0))
          /\ SubSeq(readJobQueue(queue), 1, Len(readJobQueue(queue0))) = readJobQueue(queue0)

(***************************************************************************)
(* C21.  In batch and in monitor --process, update cycles against the      *)
(* document are strictly serialized: at no point are two cycles in         *)
(* progress at once, and every external call of item i (scrape, fetch      *)
(* text, suggest, apply, list revisions) and its log append have completed *)
(* before any call of item i+1 starts.                                     *)
(***************************************************************************)
itemRun == running /\ command \in {W_batch, W_monitor} /\ (\E a \in 1..Len(args) : args[a] \in {F_urls, F_file, F_process})

\* the positions of the process inside the cycle of an item
cyclePcs ==
    {"fetchJobDescriptionFromUrl", "performUpdate", "getResumeReplacements", "retryDelay",
     "applyWordReplacements", "getRevisions", "writeVersionLog", "writeFile"}

\* the number of scrapes that have answered
fetches == Cardinality({p \in 1..Len(calls) : calls[p] = "fetchJobDescriptionFromUrl"})

\* each call follows the call the cycle makes before it
callsInCycleOrder ==
    \A p \in 1..Len(calls) :
        LET before == IF p = 1 THEN "none" ELSE calls[p - 1]
        IN  /\ calls[p] = "fetchJobDescriptionFromUrl" =>
                  before \in {"none", "fetchJobDescriptionFromUrl", "getResumeText",
                              "getResumeReplacements", "applyWordReplacements", "getRevisions"}
            /\ calls[p] = "getResumeText" => before = "fetchJobDescriptionFromUrl"
            /\ calls[p] = "getResumeReplacements" => before = "getResumeText"
            /\ calls[p] = "applyWordReplacements" => before = "getResumeReplacements"
            /\ calls[p] = "getRevisions" => before = "applyWordReplacements"

\* the items whose cycle has started and has no result yet
inProgress ==
    {k \in 1..Len(loc.urls) :
        /\ k > Len(loc.results)
        /\ \/ k <= fetches
           \/ pc \in cyclePcs /\ k = loc.i + 1}

serialized ==
    itemRun =>
        /\ Cardinality(inProgress) <= 1
        /\ pc \in cyclePcs =>
              /\ inProgress = {loc.i + 1}
              /\ Len(loc.results) = loc.i
              /\ fetches = loc.i + (IF pc = "fetchJobDescriptionFromUrl" THEN 0 ELSE 1)
        /\ (finished /\ loc.urls # <<>>) =>
              (inProgress = {} /\ Len(loc.results) = Len(loc.urls) /\ fetches = Len(loc.urls))
        /\ callsInCycleOrder

C21_CyclesAreSerialized ==
    [][/\ serialized'
       /\ itemRun =>
             /\ (Len(loc'.results) > Len(loc.results)
                    /\ loc'.results[Len(loc'.results)].success /\ ~loc.dryRun) =>
                   /\ pc = "writeFile"
                   /\ file' = WholeFile(loc.data)
                   /\ readVersionLog(file')[Len(readVersionLog(file'))].jobUrl = loc.urls[loc.i + 1]
             /\ file' # file => pc \in {"writeVersionLog", "writeFile"}
             /\ revisions' # revisions => pc = "applyWordReplacements"
             /\ (pc' = "fetchJobDescriptionFromUrl" /\ pc \in cyclePcs) =>
                   (Len(loc'.results) = Len(loc.results) + 1 /\ loc'.i = loc.i + 1)
    ]_vars

C21_Witness ==
    /\ finished /\ command = W_batch /\ ~dryRunRequested
    /\ Len(loc.results) = 2
    /\ \A k \in 1..2 : loc.results[k].success
    /\ Len(logNow) = 2
    /\ logNow[1].jobUrl = jobUrlOf(1) /\ logNow[2].jobUrl = jobUrlOf(2)

(***************************************************************************)
(* C22.  A batch run isolates failures: the failure of item i is recorded  *)
(* as a failed result and the items i+1..n are still processed; the        *)
(* process exits with an error exactly when every item failed.             *)
(***************************************************************************)
batchDone == finished /\ command = W_batch /\ loc.urls # <<>>

allFailed == \A k \in 1..Len(loc.results) : ~loc.results[k].success

C22_FailuresAreIsolated ==
    /\ (running /\ command = W_batch /\ pc \in cyclePcs) => exitCode = "none"
    /\ batchDone =>
          /\ Len(loc.results) = Len(loc.urls)
          /\ \A k \in 1..Len(loc.urls) : loc.results[k].url = loc.urls[k]
          /\ fetches = Len(loc.urls)
          /\ (exitCode = "1") <=> allFailed
          /\ (exitCode = "0") <=> ~allFailed

C22_Witness ==
    /\ batchDone
    /\ Len(loc.results) = 2
    /\ ~loc.results[1].success
    /\ loc.results[2].success
    /\ exitCode = "0"

(***************************************************************************)
(* C24.  monitor --process removes a job from the queue only when its      *)
(* update was applied and logged; the jobs whose update failed, or was     *)
(* only previewed under --dry-run, remain in the queue in their original   *)
(* relative order.                                                         *)
(***************************************************************************)
processDone ==
    /\ finished /\ command = W_monitor
    /\ \E a \in 1..Len(args) : args[a] = F_process
    /\ readJobQueue(queue0) # <<>>

\* the positions in calls of the scrapes, one per job tried
fetchPositions ==
    SelectSeq([p \in 1..Len(calls) |-> p], LAMBDA p : calls[p] = "fetchJobDescriptionFromUrl")

\* the calls made for the k-th job after its scrape
callsOfJob(k) ==
    IF k > Len(fetchPositions) THEN {}
    ELSE LET last == IF k < Len(fetchPositions) THEN fetchPositions[k + 1] - 1 ELSE Len(calls)
         IN  {calls[p] : p \in (fetchPositions[k] + 1)..last}

\* the update of the k-th job was applied to the document and appended to the log:
\* the apply call and the read of the revisions were made for it, and its result
\* carries the revision the appended entry names
appliedAndLogged(k) ==
    /\ {"applyWordReplacements", "getRevisions"} \subseteq callsOfJob(k)
    /\ k <= Len(loc.results)
    /\ loc.results[k].revisionId # Undefined

\* the jobs of the queue the run started from that were not applied and logged, in order
keptJobs ==
    LET jobQueue == readJobQueue(queue0)
        kept == SelectSeq([k \in 1..Len(jobQueue) |-> k], LAMBDA k : ~appliedAndLogged(k))
    IN  [n \in 1..Len(kept) |-> jobQueue[kept[n]]]

C24_RemovedOnlyWhenConsumed ==
    (processDone /\ queue.whole) => readJobQueue(queue) = keptJobs

====
